---- MODULE Spec2Model ----
(***************************************************************************)
(* A model of lockr's fuzzy search engine (package search: Engine), of the  *)
(* interactive search session built on it (InteractiveSearch and the       *)
(* Bubble Tea Model that drives it), and of the services behind the        *)
(* commands: the keyring manager, the vault database, the session manager  *)
(* and the clipboard manager.                                              *)
(*                                                                         *)
(* Strings are sequences of Unicode code points.  Go strings are UTF-8     *)
(* byte sequences: len(s) is the byte length (ByteLen), strings.Index      *)
(* returns a byte offset, []rune(s) indexes by code point.                 *)
(*                                                                         *)
(* Scores are float64 in the source; here they are exact rationals [n, d]  *)
(* with d > 0.  For queries of up to 5 and labels of up to 6 characters    *)
(* every comparison of two float64 scores the engine can produce has the   *)
(* outcome of the comparison of the exact values.                          *)
(*                                                                         *)
(* Specifications:                                                         *)
(*   Spec       the interactive session driven by key messages             *)
(*   SpecScore  Engine.Search over one candidate, any character            *)
(*   SpecRank   Engine.Search over two candidates                          *)
(*   SpecLimit  Engine.Search / SearchInteractive under result caps        *)
(*   SpecSuggest Engine.GetQuerySuggestions                                *)
(*   SpecSubstring Engine.Search, substring matches at long offsets        *)
(*   SpecFuzzy  Engine.Search, fuzzy matches in long labels                *)
(*   SpecKeyring two keyring managers over one system keyring              *)
(*   SpecVault  the vault database's connection and secret operations      *)
(*   SpecAuth   the session manager, its database and the clock            *)
(*   SpecClip   the clipboard manager, its timers and its process          *)
(***************************************************************************)
EXTENDS Integers, Sequences, FiniteSets, TLC

(***************************************************************************)
(* Bounds of the model.                                                    *)
(***************************************************************************)
\* the scoring specification: one candidate, any character
MaxScoreLabelLen == 3
MaxScoreQueryLen == 2
\* the ranking specification: two candidates, lower-case letters ...
MaxRankLabelLen == 4
MaxRankQueryLen == 3
\* ... or two candidates, letters of both cases
MaxMixedLabelLen == 2
MaxMixedQueryLen == 2
\* the result-cap specification: number of candidates, largest small cap
MaxLimitSecrets == 3
MaxCap == 2
\* the session: number of candidates, key length, typed query length
MaxSecrets == 11
MaxKeyLen == 3
MaxQueryLen == 2
\* the session: key messages handled between tea.Quit and its QuitMsg
MaxLateKeys == 1

\* the substring specification: characters in front of the occurrence
MaxPad == 16

\* the fuzzy specification: unmatched characters between two matched ones
MaxGap == 19

\* the keyring: master keys crypto/rand can generate, password length
MaxKeys == 2
MaxPasswordLen == 1
\* the vault: length of a secret's value, reads counted per secret
MaxValueLen == 1
MaxAccessCount == 2
\* the session manager: rows of auth_attempts
MaxLogLen == 2
\* the clipboard: calls of Copy in one process
MaxCopies == 2

(***************************************************************************)
(* Characters.                                                             *)
(***************************************************************************)
Rune_k == 107
Rune_b == 98
Rune_K == 75
Rune_B == 66
\* U+212A KELVIN SIGN: three bytes in UTF-8, lower-cased to 'k' (one byte)
Rune_Kelvin == 8490

AsciiAlphabet == {Rune_k, Rune_b, Rune_K}
UpperAlphabet == {Rune_K, Rune_B}
LowerAlphabet == {Rune_k, Rune_b}
FullAlphabet == {Rune_k, Rune_b, Rune_K, Rune_Kelvin}

\* utf8.RuneLen
RuneLen(r) == IF r < 128 THEN 1 ELSE IF r < 2048 THEN 2 ELSE IF r < 65536 THEN 3 ELSE 4

\* unicode.ToLower on the code points of the model
ToLowerRune(r) ==
    IF r >= 65 /\ r <= 90 THEN r + 32
    ELSE IF r = Rune_Kelvin THEN Rune_k
    ELSE r

\* strings.ToLower
ToLower(s) == [i \in 1..Len(s) |-> ToLowerRune(s[i])]

\* len(s) of a Go string: its length in bytes
RECURSIVE ByteLen(_)
ByteLen(s) == IF s = <<>> THEN 0 ELSE RuneLen(Head(s)) + ByteLen(Tail(s))

\* strings.HasPrefix
HasPrefix(s, prefix) ==
    /\ Len(prefix) <= Len(s)
    /\ SubSeq(s, 1, Len(prefix)) = prefix

\* the code-point positions (1-based) where sub occurs in s
Occurrences(s, sub) ==
    {i \in 1..(Len(s) - Len(sub) + 1) : SubSeq(s, i, i + Len(sub) - 1) = sub}

Minimum(S) == CHOOSE x \in S : \A y \in S : x <= y

\* strings.Index: the byte offset of the first occurrence, -1 if there is none
Index(s, sub) ==
    IF Occurrences(s, sub) = {} THEN -1
    ELSE ByteLen(SubSeq(s, 1, Minimum(Occurrences(s, sub)) - 1))

\* Go's < on strings: bytewise lexicographic, which for UTF-8 is the
\* lexicographic order of the code points
RECURSIVE StringLess(_, _)
StringLess(a, b) ==
    IF b = <<>> THEN FALSE
    ELSE IF a = <<>> THEN TRUE
    ELSE IF Head(a) # Head(b) THEN Head(a) < Head(b)
    ELSE StringLess(Tail(a), Tail(b))

\* all strings over alphabet A of length lo..hi
StringsOver(A, lo, hi) == UNION {[1..n -> A] : n \in lo..hi}

(***************************************************************************)
(* Scores: exact rationals.                                                *)
(***************************************************************************)
Score(n, d) == [n |-> n, d |-> d]
ScoreLess(a, b) == a.n * b.d < b.n * a.d
ScoreEq(a, b) == a.n * b.d = b.n * a.d
ScoreIsPositive(a) == a.n > 0

(***************************************************************************)
(* Engine                                                                  *)
(***************************************************************************)
HighlightRange(start, end) == [Start |-> start, End |-> end]

\* MatchQuality
ExactMatch == 0
PrefixMatch == 1
SubstringMatch == 2
FuzzyMatch == 3
NoMatch == 4

\* NewEngine
NewEngine == [caseSensitive |-> FALSE, maxResults |-> 100, highlightMatches |-> TRUE]

\* normalizeString leaving every string as it is
normalizeString_Raw(e, s) == s

\* Engine.normalizeString
normalizeString(e, s) == IF e.caseSensitive THEN s ELSE ToLower(s)

\* Engine.createHighlights: merge consecutive positions (0-based) into ranges.
\* start/end are the range being built, i the next index (1-based) to read.
RECURSIVE createHighlightsLoop(_, _, _, _, _)
createHighlightsLoop(positions, i, start, end, highlights) ==
    IF i > Len(positions) THEN Append(highlights, HighlightRange(start, end))
    ELSE IF positions[i] = positions[i - 1] + 1
         THEN createHighlightsLoop(positions, i + 1, start, positions[i] + 1, highlights)
         ELSE createHighlightsLoop(positions, i + 1, positions[i], positions[i] + 1,
                                   Append(highlights, HighlightRange(start, end)))

createHighlights(positions) ==
    IF Len(positions) = 0 THEN <<>>
    ELSE createHighlightsLoop(positions, 2, positions[1], positions[1] + 1, <<>>)

\* the matching loop of Engine.fuzzyScore with a run of consecutive matches
\* that is not ended by a character that does not match
RECURSIVE fuzzyLoop_NoReset(_, _, _, _, _, _, _)
fuzzyLoop_NoReset(queryRunes, targetRunes, queryPos, targetPos, consecutiveMatches, total2, matched) ==
    IF ~(queryPos < Len(queryRunes) /\ targetPos < Len(targetRunes))
    THEN [queryPos |-> queryPos, total2 |-> total2, matchedPositions |-> matched]
    ELSE IF queryRunes[queryPos + 1] = targetRunes[targetPos + 1]
         THEN fuzzyLoop_NoReset(queryRunes, targetRunes, queryPos + 1, targetPos + 1,
                                consecutiveMatches + 1,
                                total2 + 4 + (consecutiveMatches + 1),
                                Append(matched, targetPos))
         ELSE fuzzyLoop_NoReset(queryRunes, targetRunes, queryPos, targetPos + 1,
                                consecutiveMatches, total2, matched)

\* The matching loop of Engine.fuzzyScore.  queryPos/targetPos are 0-based,
\* total2 is twice totalScore (charScore = 2.0 + 0.5 * consecutiveMatches).
RECURSIVE fuzzyLoop(_, _, _, _, _, _, _)
fuzzyLoop(queryRunes, targetRunes, queryPos, targetPos, consecutiveMatches, total2, matched) ==
    IF ~(queryPos < Len(queryRunes) /\ targetPos < Len(targetRunes))
    THEN [queryPos |-> queryPos, total2 |-> total2, matchedPositions |-> matched]
    ELSE IF queryRunes[queryPos + 1] = targetRunes[targetPos + 1]
         THEN fuzzyLoop(queryRunes, targetRunes, queryPos + 1, targetPos + 1,
                        consecutiveMatches + 1,
                        total2 + 4 + (consecutiveMatches + 1),
                        Append(matched, targetPos))
         ELSE fuzzyLoop(queryRunes, targetRunes, queryPos, targetPos + 1, 0, total2, matched)

NoMatchResult == [score |-> Score(0, 1), highlights |-> <<>>]

\* fuzzyScore without the check that every query character was matched
fuzzyScore_AcceptPartial(query, target) ==
    IF Len(query) = 0 \/ Len(target) = 0 THEN NoMatchResult
    ELSE LET r == fuzzyLoop(query, target, 0, 0, 0, 0, <<>>)
         IN [score |-> Score(10, 1), highlights |-> createHighlights(r.matchedPositions)]

\* Engine.fuzzyScore.  finalScore = totalScore * matchRatio * lengthRatio * 20
\*   = (total2/2) * (matched/len(query)) * (len(query)/len(target)) * 20
fuzzyScore(query, target) ==
    IF Len(query) = 0 \/ Len(target) = 0 THEN NoMatchResult
    ELSE LET r == fuzzyLoop(query, target, 0, 0, 0, 0, <<>>)
             final == Score(r.total2 * Len(r.matchedPositions) * Len(query) * 10,
                            Len(query) * Len(target))
         IN IF r.queryPos < Len(query) THEN NoMatchResult
            ELSE [score |-> IF ScoreLess(final, Score(10, 1)) THEN Score(10, 1) ELSE final,
                  highlights |-> createHighlights(r.matchedPositions)]

\* the substring tier's score without its floor
substringScore_NoFloor(idx) == Score(80 - idx * 2, 1)

\* the substring tier's score: 80 - 2*idx, at least 50
substringScore(idx) == IF 80 - idx * 2 < 50 THEN Score(50, 1) ELSE Score(80 - idx * 2, 1)

\* Engine.scoreMatch.  A fuzzy score of 0 comes with no highlights, so the
\* closing "return 0.0, nil" returns what fuzzyScore returned.  The field
\* tier names the return statement taken: the tier the pair is scored in.
scoreMatch(e, query, target) ==
    LET queryNorm == normalizeString(e, query)
        targetNorm == normalizeString(e, target)
        idx == Index(targetNorm, queryNorm)
        fuzzy == fuzzyScore(queryNorm, targetNorm)
    IN IF queryNorm = targetNorm
       THEN [score |-> Score(100, 1),
             highlights |-> <<HighlightRange(0, ByteLen(target))>>,
             tier |-> ExactMatch]
       ELSE IF HasPrefix(targetNorm, queryNorm)
       THEN [score |-> Score(90, 1),
             highlights |-> <<HighlightRange(0, ByteLen(query))>>,
             tier |-> PrefixMatch]
       ELSE IF idx >= 0
       THEN [score |-> substringScore(idx),
             highlights |-> <<HighlightRange(idx, idx + ByteLen(query))>>,
             tier |-> SubstringMatch]
       ELSE [score |-> fuzzy.score,
             highlights |-> fuzzy.highlights,
             tier |-> IF ScoreIsPositive(fuzzy.score) THEN FuzzyMatch ELSE NoMatch]

\* strings.Contains
Contains(s, sub) == Occurrences(s, sub) # {}

\* GetMatchQuality testing for a substring before it tests for a prefix
GetMatchQuality_SubstringFirst(e, query, target) ==
    LET queryNorm == normalizeString(e, query)
        targetNorm == normalizeString(e, target)
    IN IF queryNorm = targetNorm THEN ExactMatch
       ELSE IF Contains(targetNorm, queryNorm) THEN SubstringMatch
       ELSE IF HasPrefix(targetNorm, queryNorm) THEN PrefixMatch
       ELSE IF ScoreIsPositive(fuzzyScore(queryNorm, targetNorm).score) THEN FuzzyMatch
       ELSE NoMatch

\* Engine.GetMatchQuality
GetMatchQuality(e, query, target) ==
    LET queryNorm == normalizeString(e, query)
        targetNorm == normalizeString(e, target)
    IN IF queryNorm = targetNorm THEN ExactMatch
       ELSE IF HasPrefix(targetNorm, queryNorm) THEN PrefixMatch
       ELSE IF Contains(targetNorm, queryNorm) THEN SubstringMatch
       ELSE IF ScoreIsPositive(fuzzyScore(queryNorm, targetNorm).score) THEN FuzzyMatch
       ELSE NoMatch

\* database.SearchResult: the key is all the engine reads
\* Engine.GetQuerySuggestions: the loop over secrets[i..], with the
\* suggestions collected so far (seen holds exactly their labels)
RECURSIVE suggestLoop(_, _, _, _, _, _)
suggestLoop(e, queryNorm, secrets, maxSuggestions, i, suggestions) ==
    IF i > Len(secrets) THEN suggestions
    ELSE LET key == secrets[i].Key
             keyNorm == normalizeString(e, key)
             seen == {suggestions[j] : j \in 1..Len(suggestions)}
             s1 == IF HasPrefix(keyNorm, queryNorm) /\ key \notin seen
                   THEN Append(suggestions, key)
                   ELSE suggestions
         IN IF Len(s1) >= maxSuggestions THEN s1
            ELSE suggestLoop(e, queryNorm, secrets, maxSuggestions, i + 1, s1)

\* Engine.GetQuerySuggestions(partialQuery, secrets, maxSuggestions); a nil
\* slice is the empty sequence
GetQuerySuggestions(e, partialQuery, secrets, maxSuggestions) ==
    IF ByteLen(partialQuery) = 0 THEN <<>>
    ELSE suggestLoop(e, normalizeString(e, partialQuery), secrets, maxSuggestions, 1, <<>>)

SearchResult(key) == [Key |-> key]

MatchResult(secret, score, highlights) ==
    [Result |-> secret, Score |-> score, Highlights |-> highlights]

\* The scoring loop of Engine.Search: the matches, in input order
RECURSIVE scoreSecrets(_, _, _)
scoreSecrets(e, query, secrets) ==
    IF secrets = <<>> THEN <<>>
    ELSE LET sm == scoreMatch(e, query, Head(secrets).Key)
             rest == scoreSecrets(e, query, Tail(secrets))
         IN IF ScoreIsPositive(sm.score)
            THEN <<MatchResult(Head(secrets), sm.score,
                               IF e.highlightMatches THEN sm.highlights ELSE <<>>)>> \o rest
            ELSE rest

\* the comparator with the final tie-break on the keys as stored
searchLess_RawKeys(e, query, a, b) ==
    IF ~ScoreEq(a.Score, b.Score) THEN ScoreLess(b.Score, a.Score)
    ELSE LET queryNorm == normalizeString(e, query)
             iStartsWith == HasPrefix(normalizeString(e, a.Result.Key), queryNorm)
             jStartsWith == HasPrefix(normalizeString(e, b.Result.Key), queryNorm)
         IN IF iStartsWith # jStartsWith THEN iStartsWith
            ELSE StringLess(a.Result.Key, b.Result.Key)

\* The comparator Engine.Search hands to sort.Slice
searchLess(e, query, a, b) ==
    IF ~ScoreEq(a.Score, b.Score) THEN ScoreLess(b.Score, a.Score)
    ELSE LET iKey == normalizeString(e, a.Result.Key)
             jKey == normalizeString(e, b.Result.Key)
             queryNorm == normalizeString(e, query)
             iStartsWith == HasPrefix(iKey, queryNorm)
             jStartsWith == HasPrefix(jKey, queryNorm)
         IN IF iStartsWith # jStartsWith THEN iStartsWith
            ELSE StringLess(iKey, jKey)

\* sort.Slice: a permutation of the elements at the index set I in which no
\* element is followed by one the comparator puts before it.  sort.Slice is
\* not stable: elements the comparator does not order may come out in any
\* order, so the outcome is a set of sequences.
RECURSIVE sortSlice(_, _, _, _)
sortSlice(e, query, matches, I) ==
    IF I = {} THEN {<<>>}
    ELSE UNION {
           {<<matches[i]>> \o t : t \in sortSlice(e, query, matches, I \ {i})} :
           i \in {i \in I : \A j \in I : ~searchLess(e, query, matches[j], matches[i])}}

\* What a call returns: a result list, or a run-time panic
Returned(results) == [panicked |-> FALSE, results |-> results]
Panicked == [panicked |-> TRUE, results |-> <<>>]

\* limitResults keeping the last e.maxResults results instead of the first
limitResults_TakeLast(e, results) ==
    IF Len(results) <= e.maxResults THEN Returned(results)
    ELSE IF e.maxResults < 0 THEN Panicked
    ELSE Returned(SubSeq(results, Len(results) - e.maxResults + 1, Len(results)))

\* Engine.limitResults: results[:e.maxResults] panics for a negative bound
limitResults(e, results) ==
    IF Len(results) <= e.maxResults THEN Returned(results)
    ELSE IF e.maxResults < 0 THEN Panicked
    ELSE Returned(SubSeq(results, 1, e.maxResults))

\* Engine.Search: the set of its possible outcomes
Search(e, query, secrets) ==
    IF Len(query) = 0
    THEN {limitResults(e, [i \in 1..Len(secrets) |->
                              MatchResult(secrets[i], Score(0, 1), <<>>)])}
    ELSE LET matches == scoreSecrets(e, query, secrets)
         IN {limitResults(e, sorted) :
               sorted \in sortSlice(e, query, matches, 1..Len(matches))}

(***************************************************************************)
(* Package crypto: master keys.  A key is the value of a 32-byte buffer:   *)
(* 1..MaxKeys are the keys GenerateMasterKey can draw, ZeroKey is 32 zero  *)
(* bytes (a zeroized key) and ShortKey stands for a slice of another       *)
(* length.  AES-GCM with its random salt and nonce is a ciphertext that    *)
(* opens under the key that sealed it and under no other.                  *)
(***************************************************************************)
ZeroKey == 0
ShortKey == 0 - 1
GeneratedKeys == 1..MaxKeys
KeyValues == GeneratedKeys \cup {ZeroKey, ShortKey}

Passwords == StringsOver({Rune_k}, 0, MaxPasswordLen)

Ok(v) == [err |-> "nil", value |-> v]
Failed(e, zero) == [err |-> e, value |-> zero]

\* MasterKey.EncryptPassword
EncryptPassword(mk, password) ==
    IF mk = ShortKey THEN Failed("invalid master key size", <<>>)
    ELSE Ok(<<[key |-> mk, plain |-> password]>>)

\* MasterKey.DecryptPassword
DecryptPassword(mk, encryptedPassword) ==
    IF mk = ShortKey THEN Failed("invalid master key size", <<>>)
    ELSE IF encryptedPassword[1].key # mk THEN Failed("failed to decrypt password", <<>>)
    ELSE Ok(encryptedPassword[1].plain)

\* MasterKey.Encode
Encode(mk) == [base64 |-> mk]

\* DecodeMasterKey
DecodeMasterKey(encoded) ==
    IF encoded.base64 = ShortKey THEN Failed("invalid master key size", ZeroKey)
    ELSE Ok(encoded.base64)

(***************************************************************************)
(* Package keyring.  The system keyring is store: one entry per service    *)
(* name (the user name stays DefaultUsername), <<>> when there is none and *)
(* <<KeyringData>> otherwise.  There are two Manager instances.  A cached  *)
(* master key is a slice: mgr[i].masterKey is NilKey or the buffer it      *)
(* points to, buf holds the bytes of each buffer, and two managers may     *)
(* point to the same buffer after SetMasterKey(other.GetMasterKey()).      *)
(***************************************************************************)
ServiceName == "lockr"
TestServiceName == "lockr-test"
Services == {ServiceName, TestServiceName}

Managers == {1, 2}
NilKey == 0

KeyringData(masterKey, encryptedPassword) ==
    [MasterKey |-> masterKey, EncryptedPassword |-> encryptedPassword]

\* keyring.NewManager
NewKeyringManager == [serviceName |-> ServiceName, enabled |-> TRUE, masterKey |-> NilKey]

NewKeyring ==
    [store |-> [s \in Services |-> <<>>],
     mgr |-> [i \in Managers |-> NewKeyringManager],
     buf |-> [b \in Managers |-> ZeroKey]]

\* buffers no manager points to are garbage
Collect(k) ==
    [k EXCEPT !.buf = [b \in Managers |->
        IF \E j \in Managers : k.mgr[j].masterKey = b THEN k.buf[b] ELSE ZeroKey]]

\* a buffer that no manager other than i points to
FreshBuf(k, i) ==
    IF \A j \in Managers \ {i} : k.mgr[j].masterKey # i THEN i
    ELSE CHOOSE b \in Managers : \A j \in Managers \ {i} : k.mgr[j].masterKey # b

\* manager i caches a newly allocated key of value v
CacheNew(k, i, v) ==
    LET b == FreshBuf(k, i)
    IN Collect([k EXCEPT !.mgr[i].masterKey = b, !.buf[b] = v])

\* MasterKey.Zeroize on the cached key of manager i, then m.masterKey = nil
ZeroizeCache(k, i) ==
    LET b == k.mgr[i].masterKey
    IN IF b = NilKey THEN k
       ELSE Collect([k EXCEPT !.buf[b] = IF k.buf[b] = ShortKey THEN ShortKey ELSE ZeroKey,
                              !.mgr[i].masterKey = NilKey])

KeyringResult(k, r) == [kr |-> k, err |-> r.err, value |-> r.value]

\* Manager.loadKeyringData
loadKeyringData(k, i) ==
    LET entry == k.store[k.mgr[i].serviceName]
    IN IF entry = <<>> THEN Failed("ErrPasswordNotFound", <<>>) ELSE Ok(entry)

\* the rest of SavePassword once the master key v is chosen; a key that
\* was not the cached one is cached after keyring.Set
saveWith(k, i, password, v, cached) ==
    LET enc == EncryptPassword(v, password)
        data == KeyringData(Encode(v), enc.value)
        k1 == [k EXCEPT !.store[k.mgr[i].serviceName] = <<data>>]
    IN IF enc.err # "nil" THEN KeyringResult(k, Failed("failed to encrypt password", <<>>))
       ELSE KeyringResult(IF cached THEN k1 ELSE CacheNew(k1, i, v), Ok(<<>>))

\* Manager.SavePassword(password); generated is the key GenerateMasterKey
\* draws if it is called
SavePassword(k, i, password, generated) ==
    LET m == k.mgr[i]
        existingData == loadKeyringData(k, i)
    IN IF ~m.enabled THEN KeyringResult(k, Ok(<<>>))
       ELSE IF m.masterKey # NilKey
       THEN saveWith(k, i, password, k.buf[m.masterKey], TRUE)
       ELSE IF existingData.err = "nil"
       THEN LET dec == DecodeMasterKey(existingData.value[1].MasterKey)
            IN IF dec.err # "nil"
               THEN KeyringResult(k, Failed("failed to decode existing master key", <<>>))
               ELSE saveWith(k, i, password, dec.value, FALSE)
       ELSE saveWith(k, i, password, generated, FALSE)

\* Manager.GetPassword decrypting with the cached master key when there is one
GetPassword_CachedKey(k, i) ==
    LET m == k.mgr[i]
        data == loadKeyringData(k, i)
    IN IF ~m.enabled THEN KeyringResult(k, Failed("ErrKeyringDisabled", <<>>))
       ELSE IF data.err # "nil" THEN KeyringResult(k, Failed(data.err, <<>>))
       ELSE LET dec == IF m.masterKey # NilKey THEN Ok(k.buf[m.masterKey])
                       ELSE DecodeMasterKey(data.value[1].MasterKey)
                pw == DecryptPassword(dec.value, data.value[1].EncryptedPassword)
            IN IF dec.err # "nil"
               THEN KeyringResult(k, Failed("failed to decode master key", <<>>))
               ELSE IF pw.err # "nil"
               THEN KeyringResult(k, Failed("failed to decrypt password", <<>>))
               ELSE KeyringResult(CacheNew(k, i, dec.value), Ok(pw.value))

\* Manager.GetPassword
GetPassword(k, i) ==
    LET m == k.mgr[i]
        data == loadKeyringData(k, i)
    IN IF ~m.enabled THEN KeyringResult(k, Failed("ErrKeyringDisabled", <<>>))
       ELSE IF data.err # "nil" THEN KeyringResult(k, Failed(data.err, <<>>))
       ELSE LET dec == DecodeMasterKey(data.value[1].MasterKey)
                pw == DecryptPassword(dec.value, data.value[1].EncryptedPassword)
            IN IF dec.err # "nil"
               THEN KeyringResult(k, Failed("failed to decode master key", <<>>))
               ELSE IF pw.err # "nil"
               THEN KeyringResult(k, Failed("failed to decrypt password", <<>>))
               ELSE KeyringResult(CacheNew(k, i, dec.value), Ok(pw.value))

\* Manager.DeletePassword without the test of m.enabled
DeletePassword_NoGuard(k, i) ==
    LET k1 == ZeroizeCache(k, i)
    IN KeyringResult([k1 EXCEPT !.store[k.mgr[i].serviceName] = <<>>], Ok(<<>>))

\* Manager.DeletePassword; keyring.ErrNotFound is ignored
DeletePassword(k, i) ==
    IF ~k.mgr[i].enabled THEN KeyringResult(k, Ok(<<>>))
    ELSE LET k1 == ZeroizeCache(k, i)
         IN KeyringResult([k1 EXCEPT !.store[k.mgr[i].serviceName] = <<>>], Ok(<<>>))

\* Manager.HasPassword
HasPassword(k, i) ==
    IF ~k.mgr[i].enabled THEN FALSE ELSE loadKeyringData(k, i).err = "nil"

\* Manager.UpdatePassword
UpdatePassword(k, i, newPassword, generated) ==
    IF ~k.mgr[i].enabled THEN KeyringResult(k, Ok(<<>>))
    ELSE SavePassword(k, i, newPassword, generated)

\* Manager.SetMasterKey(key) with a slice of its own: nil, or bytes v
SetMasterKey(k, i, isNil, v) ==
    IF isNil THEN Collect([k EXCEPT !.mgr[i].masterKey = NilKey])
    ELSE CacheNew(k, i, v)

\* Manager.SetMasterKey(other.GetMasterKey()): the slice of manager j
ShareMasterKey(k, i, j) ==
    Collect([k EXCEPT !.mgr[i].masterKey = k.mgr[j].masterKey])

\* Manager.ClearCache
ClearCache(k, i) == ZeroizeCache(k, i)

(***************************************************************************)
(* Package database: VaultDatabase.  The vault file holds the secrets      *)
(* table (a set of rows, values of created_at and last_accessed left out)  *)
(* and the auth_attempts table (a sequence of rows); it was created with   *)
(* the password VaultPassword.  isOpen and connection are the fields of    *)
(* the VaultDatabase, connection being TRUE for a non-nil *sql.DB.         *)
(***************************************************************************)
VaultPassword == <<Rune_k>>

MaxKeyLength == 256

Rune_Space == 32

VaultKeys == {<<Rune_k>>, <<Rune_b>>}
\* the keys callers pass: the keys of the vault in either case, the empty
\* key and a key with a character that is not allowed
KeyArgs == VaultKeys \cup {<<Rune_K>>, <<Rune_B>>, <<>>, <<Rune_Space>>}
VaultValues == StringsOver({Rune_b}, 0, MaxValueLen)

\* COLLATE NOCASE: the 26 upper-case characters of ASCII are folded
NoCase(s) == [i \in 1..Len(s) |-> IF s[i] \in 65..90 THEN s[i] + 32 ELSE s[i]]

\* the code points of validPunct
ValidPunct ==
    {46, 45, 95, 58, 47, 64, 35, 36, 37, 94, 38, 42, 43, 61, 91, 93, 123, 125,
     124, 92, 59, 34, 39, 60, 62, 63, 126, 96}

isValidKeyChar(r) ==
    \/ r \in 97..122
    \/ r \in 65..90
    \/ r \in 48..57
    \/ r \in ValidPunct

validateKey(key) ==
    IF ByteLen(key) = 0 THEN "ErrInvalidKey"
    ELSE IF ByteLen(key) > MaxKeyLength THEN "ErrInvalidKey"
    ELSE IF \E i \in 1..Len(key) : ~isValidKeyChar(key[i]) THEN "ErrInvalidKey"
    ELSE "nil"

SecretRow(key, value, count) == [key |-> key, value |-> value, access_count |-> count]

\* NewVaultDatabase over a vault file with the given tables
NewVaultDatabase(rows, log) ==
    [isOpen |-> FALSE, connection |-> FALSE, secrets |-> rows, auth_attempts |-> log]

DbResult(d, e, v) == [db |-> d, err |-> e, value |-> v]

\* VaultDatabase.Connect(password); env is what the driver meets: "ok", an
\* "open_failure" (sql.Open or the test query fails for another reason than
\* the password) or a "schema_failure" (initializeSchema fails)
Connect(d, password, env) ==
    IF d.isOpen THEN DbResult(d, "nil", <<>>)
    ELSE IF env = "open_failure" THEN DbResult(d, "DatabaseError", <<>>)
    ELSE IF password # VaultPassword THEN DbResult(d, "ErrAuthenticationFailed", <<>>)
    ELSE LET d1 == [d EXCEPT !.connection = TRUE, !.isOpen = TRUE]
         IN IF env = "schema_failure" THEN DbResult(d1, "DatabaseError", <<>>)
            ELSE DbResult(d1, "nil", <<>>)

\* VaultDatabase.Close
Close(d) ==
    IF ~d.isOpen \/ ~d.connection THEN DbResult(d, "nil", <<>>)
    ELSE DbResult([d EXCEPT !.connection = FALSE, !.isOpen = FALSE], "nil", <<>>)

\* VaultDatabase.IsConnected
IsConnected(d) == d.isOpen /\ d.connection

\* VaultDatabase.ensureConnected without its test
ensureConnected_Always(d) == "nil"

\* VaultDatabase.ensureConnected
ensureConnected(d) == IF ~IsConnected(d) THEN "ErrDatabaseNotConnected" ELSE "nil"

\* WHERE key = ? COLLATE NOCASE
RowsWhereKey(d, key) == {r \in d.secrets : NoCase(r.key) = NoCase(key)}

\* the UNIQUE constraint of the key column comparing keys as they are
UniqueViolated_CaseSensitive(d, key) == \E r \in d.secrets : r.key = key

\* key TEXT UNIQUE NOT NULL COLLATE NOCASE
UniqueViolated(d, key) == RowsWhereKey(d, key) # {}

\* VaultDatabase.CreateSecret
CreateSecret(d, key, value) ==
    IF ensureConnected(d) # "nil" THEN DbResult(d, ensureConnected(d), <<>>)
    ELSE IF validateKey(key) # "nil" THEN DbResult(d, validateKey(key), <<>>)
    ELSE IF UniqueViolated(d, key) THEN DbResult(d, "ErrDuplicateKey", <<>>)
    ELSE DbResult([d EXCEPT !.secrets = @ \cup {SecretRow(key, value, 0)}], "nil", <<>>)

\* VaultDatabase.GetSecret returning the count it read
GetSecret_StaleCount(d, key) ==
    LET found == RowsWhereKey(d, key)
        row == CHOOSE r \in found : TRUE
        updated == {IF r \in found THEN [r EXCEPT !.access_count = @ + 1] ELSE r : r \in d.secrets}
    IN IF ensureConnected(d) # "nil" THEN DbResult(d, ensureConnected(d), <<>>)
       ELSE IF found = {} THEN DbResult(d, "ErrKeyNotFound", <<>>)
       ELSE DbResult([d EXCEPT !.secrets = updated], "nil", <<row>>)

\* VaultDatabase.GetSecret: the row is read, access_count is incremented in
\* the table and then in the Secret returned
GetSecret(d, key) ==
    LET found == RowsWhereKey(d, key)
        row == CHOOSE r \in found : TRUE
        updated == {IF r \in found THEN [r EXCEPT !.access_count = @ + 1] ELSE r : r \in d.secrets}
    IN IF ensureConnected(d) # "nil" THEN DbResult(d, ensureConnected(d), <<>>)
       ELSE IF found = {} THEN DbResult(d, "ErrKeyNotFound", <<>>)
       ELSE DbResult([d EXCEPT !.secrets = updated], "nil",
                     <<[row EXCEPT !.access_count = @ + 1]>>)

\* VaultDatabase.UpdateSecret
UpdateSecret(d, key, value) ==
    LET found == RowsWhereKey(d, key)
        updated == {IF r \in found THEN [r EXCEPT !.value = value] ELSE r : r \in d.secrets}
    IN IF ensureConnected(d) # "nil" THEN DbResult(d, ensureConnected(d), <<>>)
       ELSE IF found = {} THEN DbResult(d, "ErrKeyNotFound", <<>>)
       ELSE DbResult([d EXCEPT !.secrets = updated], "nil", <<>>)

\* VaultDatabase.DeleteSecret
DeleteSecret(d, key) ==
    LET found == RowsWhereKey(d, key)
    IN IF ensureConnected(d) # "nil" THEN DbResult(d, ensureConnected(d), <<>>)
       ELSE IF found = {} THEN DbResult(d, "ErrKeyNotFound", <<>>)
       ELSE DbResult([d EXCEPT !.secrets = @ \ found], "nil", <<>>)

\* the columns ListSecrets and SearchSecrets select
ListedRow(r) == [Key |-> r.key, AccessCount |-> r.access_count]

\* VaultDatabase.ListSecrets: the rows returned, as a set (their order is
\* that of last_accessed)
ListSecrets(d) ==
    IF ensureConnected(d) # "nil" THEN DbResult(d, ensureConnected(d), <<>>)
    ELSE DbResult(d, "nil", <<{ListedRow(r) : r \in d.secrets}>>)

\* VaultDatabase.SearchSecrets: key LIKE '%pattern%' for a pattern without
\* the wildcards of LIKE; LIMIT 100 is more than the table holds
SearchSecrets(d, pattern) ==
    IF ensureConnected(d) # "nil" THEN DbResult(d, ensureConnected(d), <<>>)
    ELSE DbResult(d, "nil",
                  <<{ListedRow(r) : r \in {x \in d.secrets :
                                               Contains(NoCase(x.key), NoCase(pattern))}}>>)

AuthAttempt(username, success) == [username |-> username, success |-> success]

\* VaultDatabase.LogAuthAttempt
LogAuthAttempt(d, username, success) ==
    IF ensureConnected(d) # "nil" THEN DbResult(d, ensureConnected(d), <<>>)
    ELSE DbResult([d EXCEPT !.auth_attempts = Append(@, AuthAttempt(username, success))],
                  "nil", <<>>)

(***************************************************************************)
(* Package session: Manager.  currentSession is <<>> (nil) or <<Session>>; *)
(* the manager's keyring manager is instance 1 of the keyring.  Time is    *)
(* counted in minutes.                                                     *)
(***************************************************************************)
SessionTimeout == 15
\* the clock of the session manager advances in thirds of the timeout, up to
\* four steps past it
SessionClockStep == SessionTimeout \div 3
MaxSessionTime == SessionTimeout + 4 * SessionClockStep

CurrentUser == "user"

Session(t) == [CreatedAt |-> t, ExpiresAt |-> t + SessionTimeout, LastActivity |-> t]

\* session.NewManager
NewSessionManager == [currentSession |-> <<>>]

SessionResult(s, d, k, e, v) == [sm |-> s, db |-> d, kr |-> k, err |-> e, value |-> v]

\* keyring Manager.PromptToSave; response is what the user types
PromptToSave(k, i, password, response, generated) ==
    IF ~k.mgr[i].enabled THEN k
    ELSE IF HasPassword(k, i) THEN k
    ELSE IF response = "y" THEN SavePassword(k, i, password, generated).kr
    ELSE k

\* Manager.Authenticate(password)
Authenticate(s, d, k, t, password, env, response, generated) ==
    LET conn == Connect(d, password, env)
        success == conn.err = "nil"
        logged == LogAuthAttempt(conn.db, CurrentUser, success)
        k1 == IF k.mgr[1].enabled /\ ~HasPassword(k, 1)
              THEN PromptToSave(k, 1, password, response, generated)
              ELSE k
    IN IF ~success THEN SessionResult(s, logged.db, k, conn.err, <<>>)
       ELSE SessionResult([s EXCEPT !.currentSession = <<Session(t)>>],
                          logged.db, k1, "nil", <<>>)

\* Manager.expireSession
expireSession(s, d) ==
    [sm |-> [s EXCEPT !.currentSession = <<>>], db |-> Close(d).db]

\* Manager.IsAuthenticated that does not look at the clock
IsAuthenticated_NoTimeout(s, d, k, t) ==
    IF s.currentSession = <<>> THEN SessionResult(s, d, k, "nil", FALSE)
    ELSE SessionResult(s, d, k, "nil", IsConnected(d))

\* Manager.IsAuthenticated
IsAuthenticated(s, d, k, t) ==
    IF s.currentSession = <<>> THEN SessionResult(s, d, k, "nil", FALSE)
    ELSE IF t > s.currentSession[1].ExpiresAt
    THEN LET x == expireSession(s, d) IN SessionResult(x.sm, x.db, k, "nil", FALSE)
    ELSE SessionResult(s, d, k, "nil", IsConnected(d))

\* Manager.RefreshSession recording the activity without extending ExpiresAt
RefreshSession_NoExtend(s, d, k, t) ==
    IF s.currentSession = <<>> THEN SessionResult(s, d, k, "ErrInvalidSession", <<>>)
    ELSE IF t > s.currentSession[1].ExpiresAt
    THEN LET x == expireSession(s, d) IN SessionResult(x.sm, x.db, k, "ErrSessionExpired", <<>>)
    ELSE SessionResult([s EXCEPT !.currentSession[1].LastActivity = t], d, k, "nil", <<>>)

\* Manager.RefreshSession
RefreshSession(s, d, k, t) ==
    IF s.currentSession = <<>> THEN SessionResult(s, d, k, "ErrInvalidSession", <<>>)
    ELSE IF t > s.currentSession[1].ExpiresAt
    THEN LET x == expireSession(s, d) IN SessionResult(x.sm, x.db, k, "ErrSessionExpired", <<>>)
    ELSE SessionResult([s EXCEPT !.currentSession[1].LastActivity = t,
                                 !.currentSession[1].ExpiresAt = t + SessionTimeout],
                       d, k, "nil", <<>>)

\* Manager.Logout
Logout(s, d, k, t) ==
    IF s.currentSession = <<>> THEN SessionResult(s, d, k, "nil", <<>>)
    ELSE SessionResult([s EXCEPT !.currentSession = <<>>], Close(d).db, k, "nil", <<>>)

(***************************************************************************)
(* Package clipboard: Manager, in the process that created it.  system is  *)
(* the system clipboard, which outlives the process; clearTimer is <<>>    *)
(* (nil) or <<timer>>, a timer being "pending" until it is stopped or      *)
(* fires at its time; callbacks holds the clearIfUnchanged calls that are  *)
(* under way, each in a goroutine of its own.  Time is counted in seconds. *)
(* Texts are shorter than MaxClipboardSize.                                *)
(***************************************************************************)
DefaultClearDelay == 60
\* the clock of the clipboard advances in halves of the delay, up to two
\* delays: a Copy can follow the firing of an earlier Copy's timer
ClipClockStep == DefaultClearDelay \div 2
MaxClipTime == 4 * ClipClockStep

NoText == ""
ClipTexts == {"secret", "other"}

\* clipboard.NewManager, in a process that has just started
NewClipboard(system) ==
    [system |-> system, alive |-> TRUE, clearDelay |-> DefaultClearDelay,
     clearTimer |-> <<>>, lastCopy |-> NoText, callbacks |-> <<>>, copies |-> 0]

Timer(at) == [at |-> at, state |-> "pending"]

\* Timer.Stop on m.clearTimer
StopTimer(c) ==
    IF c.clearTimer # <<>> /\ c.clearTimer[1].state = "pending"
    THEN [c EXCEPT !.clearTimer[1].state = "stopped"]
    ELSE c

ClipResult(c, e) == [clip |-> c, err |-> e]

\* Manager.Copy(text) at time t; copyFails: copyToSystem returns an error
Copy(c, t, text, copyFails) ==
    LET c1 == StopTimer(c)
        c2 == [c1 EXCEPT !.system = text, !.lastCopy = text, !.copies = @ + 1]
    IN IF copyFails THEN ClipResult([c1 EXCEPT !.copies = @ + 1], "failed to copy to clipboard")
       ELSE IF c2.clearDelay > 0
       THEN ClipResult([c2 EXCEPT !.clearTimer = <<Timer(t + c2.clearDelay)>>], "nil")
       ELSE ClipResult(c2, "nil")

\* Manager.Clear
Clear(c) ==
    LET c1 == StopTimer(c)
    IN [c1 EXCEPT !.clearTimer = <<>>, !.system = NoText, !.lastCopy = NoText]

\* the timer of m.clearTimer fires: its callback starts
Fire(c) ==
    [c EXCEPT !.clearTimer[1].state = "fired",
              !.callbacks = Append(@, [pc |-> "start", current |-> NoText])]

RemoveAt(s, j) == SubSeq(s, 1, j - 1) \o SubSeq(s, j + 1, Len(s))

\* one step of the clearIfUnchanged call j: up to GetContent, then the
\* comparison and what follows it
clearIfUnchanged(c, j) ==
    LET f == c.callbacks[j]
        done == [c EXCEPT !.callbacks = RemoveAt(@, j)]
    IN IF f.pc = "start"
       THEN IF c.lastCopy = NoText THEN done
            ELSE [c EXCEPT !.callbacks[j] = [pc |-> "read", current |-> c.system]]
       ELSE IF f.current = c.lastCopy THEN Clear(done)
            ELSE [done EXCEPT !.lastCopy = NoText]

\* the process ends: its timers and goroutines end with it
Exit(c) ==
    [c EXCEPT !.alive = FALSE, !.clearTimer = <<>>, !.callbacks = <<>>,
              !.lastCopy = NoText]

(***************************************************************************)
(* State                                                                   *)
(***************************************************************************)
VARIABLES
    engine,     \* an Engine: [caseSensitive, maxResults, highlightMatches]
    query,      \* the query the engine's caller searches for
    secrets,    \* the candidates the engine's caller holds
    out,        \* what the engine's last operation returned
    is,         \* the InteractiveSearch
    m,          \* the Bubble Tea Model: [quitting, selected]
    running,    \* the Bubble Tea program is still running (no QuitMsg seen yet)
    quitSent,   \* Update has returned tea.Quit
    late,       \* the number of key messages handled since the first tea.Quit
    last,       \* the last key message Update handled, and the selected
                \* index it found: [key, ch, selected]
    kr,         \* the system keyring and the keyring Managers: [store, mgr, buf]
    saved,      \* per service name, the password last saved in the keyring
    db,         \* the VaultDatabase and its vault file
    auth,       \* the session Manager: [currentSession]
    now,        \* the time
    clip,       \* the clipboard Manager, its process and the system clipboard
    res         \* what the last operation on a service returned

engineVars == <<engine, query, secrets, out>>
sessionVars == <<is, m, running, quitSent, late, last>>
searchVars == <<engineVars, sessionVars>>
serviceVars == <<kr, saved, db, auth, now, clip, res>>
vars == <<engine, query, secrets, out, is, m, running, quitSent, late, last,
          kr, saved, db, auth, now, clip, res>>

NoCall == [op |-> "none", cap |-> 0, panicked |-> FALSE, results |-> <<>>]
CallOutcome(op, cap, r) ==
    [op |-> op, cap |-> cap, panicked |-> r.panicked, results |-> r.results]

(***************************************************************************)
(* Engine operations                                                       *)
(***************************************************************************)
\* Engine.SetCaseSensitive
SetCaseSensitive(sensitive) ==
    /\ ~out.panicked
    /\ engine' = [engine EXCEPT !.caseSensitive = sensitive]
    /\ out' = NoCall
    /\ UNCHANGED <<query, secrets, sessionVars, serviceVars>>

\* Engine.SetMaxResults
SetMaxResults(max) ==
    /\ ~out.panicked
    /\ engine' = [engine EXCEPT !.maxResults = max]
    /\ out' = NoCall
    /\ UNCHANGED <<query, secrets, sessionVars, serviceVars>>

\* Engine.SetHighlightMatches
SetHighlightMatches(highlight) ==
    /\ ~out.panicked
    /\ engine' = [engine EXCEPT !.highlightMatches = highlight]
    /\ out' = NoCall
    /\ UNCHANGED <<query, secrets, sessionVars, serviceVars>>

\* a call of Engine.Search(query, secrets)
DoSearch ==
    /\ ~out.panicked
    /\ \E r \in Search(engine, query, secrets) :
         out' = CallOutcome("Search", engine.maxResults, r)
    /\ UNCHANGED <<engine, query, secrets, sessionVars, serviceVars>>

\* a call of Engine.GetMatchQuality(query, target) for the label of a candidate
DoGetMatchQuality ==
    /\ ~out.panicked
    /\ \E i \in 1..Len(secrets) :
         out' = [op |-> "GetMatchQuality", cap |-> engine.maxResults,
                 panicked |-> FALSE, results |-> <<>>,
                 target |-> secrets[i].Key,
                 quality |-> GetMatchQuality(engine, query, secrets[i].Key)]
    /\ UNCHANGED <<engine, query, secrets, sessionVars, serviceVars>>

\* a call of Engine.GetQuerySuggestions(query, secrets, maxSuggestions)
DoGetQuerySuggestions(maxSuggestions) ==
    /\ out' = [op |-> "GetQuerySuggestions", cap |-> maxSuggestions,
               panicked |-> FALSE, results |-> <<>>,
               suggestions |-> GetQuerySuggestions(engine, query, secrets, maxSuggestions)]
    /\ UNCHANGED <<engine, query, secrets, sessionVars, serviceVars>>

\* SearchInteractive searching under the engine's own cap
DoSearchInteractive_OwnCap(maxResults) ==
    /\ ~out.panicked
    /\ \E r \in Search(engine, query, secrets) :
         out' = CallOutcome("SearchInteractive", maxResults, r)
    /\ UNCHANGED <<engine, query, secrets, sessionVars, serviceVars>>

\* a call of Engine.SearchInteractive(query, secrets, maxResults): the old cap
\* is restored after Search returns, which a panic in Search skips
DoSearchInteractive(maxResults) ==
    /\ ~out.panicked
    /\ LET oldMax == engine.maxResults
           e1 == [engine EXCEPT !.maxResults = maxResults]
       IN \E r \in Search(e1, query, secrets) :
            /\ out' = CallOutcome("SearchInteractive", maxResults, r)
            /\ engine' = IF r.panicked THEN e1 ELSE [e1 EXCEPT !.maxResults = oldMax]
    /\ UNCHANGED <<query, secrets, sessionVars, serviceVars>>

(***************************************************************************)
(* InteractiveSearch                                                       *)
(***************************************************************************)
MaxDisplayResults == 5

\* NewInteractiveSearch
NewInteractiveSearch(ss) ==
    [engine |-> [NewEngine EXCEPT !.maxResults = MaxDisplayResults * 2],
     secrets |-> ss, results |-> <<>>, query |-> <<>>, selected |-> 0, active |-> TRUE]

\* NewModel: no result selected, not quitting
NewModel == [quitting |-> FALSE, selected |-> <<>>]

\* updateResults without the truncation to MaxDisplayResults
updateResults_NoDisplayLimit(s) ==
    {[s EXCEPT !.results = r.results,
               !.selected = IF s.selected >= Len(r.results) THEN Len(r.results) - 1
                            ELSE s.selected] :
     r \in Search(s.engine, s.query, s.secrets)}

\* InteractiveSearch.updateResults.  The session's engine has cap 10, so its
\* Search never panics.
updateResults(s) ==
    {LET allResults == r.results
         displayCount == IF Len(allResults) < MaxDisplayResults
                         THEN Len(allResults) ELSE MaxDisplayResults
         results == SubSeq(allResults, 1, displayCount)
         sel1 == IF s.selected >= Len(results) THEN Len(results) - 1 ELSE s.selected
         sel2 == IF sel1 < 0 /\ Len(results) > 0 THEN 0 ELSE sel1
     IN [s EXCEPT !.results = results, !.selected = sel2] :
     r \in Search(s.engine, s.query, s.secrets)}

\* AddChar without the reset of the selection
AddChar_KeepSelection(s, ch) ==
    updateResults([s EXCEPT !.query = Append(s.query, ch)])

\* InteractiveSearch.AddChar (ch is one byte: a printable ASCII character)
AddChar(s, ch) ==
    {[u EXCEPT !.selected = 0] : u \in updateResults([s EXCEPT !.query = Append(s.query, ch)])}

\* RemoveChar without the check for an empty query
RemoveChar_AlwaysUpdate(s) ==
    {[u EXCEPT !.selected = 0] :
       u \in updateResults([s EXCEPT !.query = SubSeq(s.query, 1, Len(s.query) - 1)])}

\* InteractiveSearch.RemoveChar
RemoveChar(s) ==
    IF Len(s.query) > 0
    THEN {[u EXCEPT !.selected = 0] :
            u \in updateResults([s EXCEPT !.query = SubSeq(s.query, 1, Len(s.query) - 1)])}
    ELSE {s}

\* MoveSelection without the wraparound
MoveSelection_NoWrap(s, direction) ==
    IF Len(s.results) = 0 THEN s
    ELSE [s EXCEPT !.selected = s.selected + direction]

\* MoveSelection stopping at the first and the last result
MoveSelection_Clamp(s, direction) ==
    IF Len(s.results) = 0 THEN s
    ELSE LET moved == s.selected + direction
         IN [s EXCEPT !.selected = IF moved < 0 THEN 0
                                   ELSE IF moved >= Len(s.results) THEN Len(s.results) - 1
                                   ELSE moved]

\* InteractiveSearch.MoveSelection
MoveSelection(s, direction) ==
    IF Len(s.results) = 0 THEN s
    ELSE LET moved == s.selected + direction
         IN [s EXCEPT !.selected = IF moved < 0 THEN Len(s.results) - 1
                                   ELSE IF moved >= Len(s.results) THEN 0
                                   ELSE moved]

\* InteractiveSearch.GetSelectedResult: a sequence of at most one result
GetSelectedResult(s) ==
    IF Len(s.results) = 0 \/ s.selected < 0 \/ s.selected >= Len(s.results) THEN <<>>
    ELSE <<s.results[s.selected + 1]>>

\* InteractiveSearch.Render: the number N of its "... and N more results"
\* line, 0 if it writes none.  Search's outcomes differ in order, not in length.
RenderMoreCount(s) ==
    IF Len(s.results) = 0 THEN {0}
    ELSE {LET totalMatches == Len(r.results)
          IN IF totalMatches > Len(s.results) THEN totalMatches - Len(s.results) ELSE 0 :
          r \in Search(s.engine, s.query, s.secrets)}

(***************************************************************************)
(* Model.Update: one action per key message                                *)
(***************************************************************************)
\* Update has no guard on m.quitting or on a result already recorded, and
\* tea.Quit is a command: its QuitMsg reaches the event loop as one more
\* message, so key messages already on their way are handled after Update
\* has returned tea.Quit and before the program stops.
KeyMsg(key, ch) == [key |-> key, ch |-> ch, selected |-> is.selected]
NoKeyMsg == [key |-> "none", ch |-> 0, selected |-> 0]

\* the event loop hands Update a key message: the program is running, and of
\* the messages that overtake the QuitMsg at most MaxLateKeys are followed
KeyDelivered ==
    /\ running
    /\ quitSent => late < MaxLateKeys
    /\ late' = IF quitSent THEN late + 1 ELSE late

\* "ctrl+c", "esc" with the selected result recorded as "enter" does
KeyEsc_RecordSelection ==
    /\ KeyDelivered
    /\ m' = IF Len(is.results) > 0 /\ is.selected < Len(is.results)
            THEN [m EXCEPT !.quitting = TRUE, !.selected = <<is.results[is.selected + 1]>>]
            ELSE [m EXCEPT !.quitting = TRUE]
    /\ quitSent' = TRUE
    /\ last' = KeyMsg("esc", 0)
    /\ UNCHANGED <<is, running, engineVars, serviceVars>>

\* "ctrl+c", "esc"
KeyEsc ==
    /\ KeyDelivered
    /\ m' = [m EXCEPT !.quitting = TRUE]
    /\ quitSent' = TRUE
    /\ last' = KeyMsg("esc", 0)
    /\ UNCHANGED <<is, running, engineVars, serviceVars>>

\* "enter" recording the first visible result whatever the selected index
KeyEnter_FirstResult ==
    /\ KeyDelivered
    /\ m' = IF Len(is.results) > 0 /\ is.selected < Len(is.results)
            THEN [m EXCEPT !.selected = <<is.results[1]>>]
            ELSE m
    /\ quitSent' = TRUE
    /\ last' = KeyMsg("enter", 0)
    /\ UNCHANGED <<is, running, engineVars, serviceVars>>

\* "enter"
KeyEnter ==
    /\ KeyDelivered
    /\ m' = IF Len(is.results) > 0 /\ is.selected < Len(is.results)
            THEN [m EXCEPT !.selected = <<is.results[is.selected + 1]>>]
            ELSE m
    /\ quitSent' = TRUE
    /\ last' = KeyMsg("enter", 0)
    /\ UNCHANGED <<is, running, engineVars, serviceVars>>

\* "up", "ctrl+p"
KeyUp ==
    /\ KeyDelivered
    /\ is' = MoveSelection(is, -1)
    /\ last' = KeyMsg("up", 0)
    /\ UNCHANGED <<m, running, quitSent, engineVars, serviceVars>>

\* "down", "ctrl+n"
KeyDown ==
    /\ KeyDelivered
    /\ is' = MoveSelection(is, 1)
    /\ last' = KeyMsg("down", 0)
    /\ UNCHANGED <<m, running, quitSent, engineVars, serviceVars>>

\* "backspace"
KeyBackspace ==
    /\ KeyDelivered
    /\ is' \in RemoveChar(is)
    /\ last' = KeyMsg("backspace", 0)
    /\ UNCHANGED <<m, running, quitSent, engineVars, serviceVars>>

\* a printable character
KeyChar(ch) ==
    /\ KeyDelivered
    /\ Len(is.query) < MaxQueryLen
    /\ is' \in AddChar(is, ch)
    /\ last' = KeyMsg("char", ch)
    /\ UNCHANGED <<m, running, quitSent, engineVars, serviceVars>>

\* tea.QuitMsg: the event loop returns the model, program.Run returns
QuitMsg ==
    /\ running
    /\ quitSent
    /\ running' = FALSE
    /\ UNCHANGED <<is, m, quitSent, late, last, engineVars, serviceVars>>

\* What RunInteractiveSearch returns for the final model: the selected key,
\* or the empty string
RunInteractiveSearch(final) ==
    IF final.selected # <<>> THEN final.selected[1].Result.Key ELSE <<>>

\* the session while an engine specification runs
SessionIdle ==
    /\ is = NewInteractiveSearch(<<>>)
    /\ m = NewModel
    /\ running = FALSE
    /\ quitSent = FALSE
    /\ late = 0
    /\ last = NoKeyMsg

\* the engine while the session specification runs
EngineIdle ==
    /\ engine = NewEngine
    /\ query = <<>>
    /\ secrets = <<>>
    /\ out = NoCall

(***************************************************************************)
(* Keyring operations.  saved records, for each service name, the password *)
(* of the last SavePassword or UpdatePassword that an enabled manager      *)
(* completed for it without error, <<>> after a DeletePassword.            *)
(***************************************************************************)
NoResult == [op |-> "none"]

KeyringCall(op, i, r) ==
    /\ kr' = r.kr
    /\ res' = [op |-> op, mgr |-> i, service |-> kr.mgr[i].serviceName,
               enabled |-> kr.mgr[i].enabled, err |-> r.err, value |-> r.value]

Remember(i, r, entry) ==
    saved' = IF kr.mgr[i].enabled /\ r.err = "nil"
             THEN [saved EXCEPT ![kr.mgr[i].serviceName] = entry]
             ELSE saved

\* the keys GenerateMasterKey can draw in SavePassword: it is called by an
\* enabled manager with no cached key and no stored entry, and not otherwise
DrawnKeys(k, i) ==
    IF k.mgr[i].enabled /\ k.mgr[i].masterKey = NilKey /\ loadKeyringData(k, i).err # "nil"
    THEN GeneratedKeys
    ELSE {ZeroKey}

DoSavePassword(i, password) ==
    /\ \E generated \in DrawnKeys(kr, i) :
         LET r == SavePassword(kr, i, password, generated)
         IN KeyringCall("SavePassword", i, r) /\ Remember(i, r, <<password>>)
    /\ UNCHANGED <<db, auth, now, clip, searchVars>>

DoUpdatePassword(i, newPassword) ==
    /\ \E generated \in DrawnKeys(kr, i) :
         LET r == UpdatePassword(kr, i, newPassword, generated)
         IN KeyringCall("UpdatePassword", i, r) /\ Remember(i, r, <<newPassword>>)
    /\ UNCHANGED <<db, auth, now, clip, searchVars>>

DoGetPassword(i) ==
    /\ KeyringCall("GetPassword", i, GetPassword(kr, i))
    /\ UNCHANGED <<saved, db, auth, now, clip, searchVars>>

DoDeletePassword(i) ==
    /\ LET r == DeletePassword(kr, i)
       IN KeyringCall("DeletePassword", i, r) /\ Remember(i, r, <<>>)
    /\ UNCHANGED <<db, auth, now, clip, searchVars>>

DoHasPassword(i) ==
    /\ KeyringCall("HasPassword", i, KeyringResult(kr, Ok(<<HasPassword(kr, i)>>)))
    /\ UNCHANGED <<saved, db, auth, now, clip, searchVars>>

KeyringSetter(op, i, k) ==
    /\ kr' = k
    /\ res' = [op |-> op, mgr |-> i]
    /\ UNCHANGED <<saved, db, auth, now, clip, searchVars>>

\* Manager.SetMasterKey(key) for nil, a slice of the caller or the cached
\* key of another manager
DoSetMasterKey(i) ==
    \/ KeyringSetter("SetMasterKey", i, SetMasterKey(kr, i, TRUE, ZeroKey))
    \/ \E v \in GeneratedKeys \cup {ShortKey} :
         KeyringSetter("SetMasterKey", i, SetMasterKey(kr, i, FALSE, v))
    \/ \E j \in Managers \ {i} :
         KeyringSetter("SetMasterKey", i, ShareMasterKey(kr, i, j))

DoClearCache(i) == KeyringSetter("ClearCache", i, ClearCache(kr, i))

\* Manager.Enable / Manager.Disable
DoSetEnabled(i, enabled) ==
    KeyringSetter(IF enabled THEN "Enable" ELSE "Disable", i,
                  [kr EXCEPT !.mgr[i].enabled = enabled])

\* Manager.SetServiceName
DoSetServiceName(i, name) ==
    KeyringSetter("SetServiceName", i, [kr EXCEPT !.mgr[i].serviceName = name])

(***************************************************************************)
(* VaultDatabase operations.                                               *)
(***************************************************************************)
DbCall(op, key, r) ==
    /\ db' = r.db
    /\ res' = [op |-> op, key |-> key, connected |-> IsConnected(db),
               err |-> r.err, value |-> r.value]
    /\ UNCHANGED <<kr, saved, auth, now, clip, searchVars>>

Environments == {"ok", "open_failure", "schema_failure"}

DoConnect(password) ==
    \E env \in Environments : DbCall("Connect", <<>>, Connect(db, password, env))

DoClose == DbCall("Close", <<>>, Close(db))

DoCreateSecret(key, value) == DbCall("CreateSecret", key, CreateSecret(db, key, value))

DoGetSecret(key) ==
    /\ \A r \in RowsWhereKey(db, key) : r.access_count < MaxAccessCount
    /\ DbCall("GetSecret", key, GetSecret(db, key))

DoUpdateSecret(key, value) == DbCall("UpdateSecret", key, UpdateSecret(db, key, value))

DoDeleteSecret(key) == DbCall("DeleteSecret", key, DeleteSecret(db, key))

DoListSecrets == DbCall("ListSecrets", <<>>, ListSecrets(db))

DoSearchSecrets(pattern) == DbCall("SearchSecrets", pattern, SearchSecrets(db, pattern))

(***************************************************************************)
(* Session manager operations, and the clock.                              *)
(***************************************************************************)
\* a call of the session manager; value holds what IsAuthenticated returned
SessionCall(op, password, r) ==
    /\ auth' = r.sm
    /\ db' = r.db
    /\ kr' = r.kr
    /\ saved' = IF r.kr.store # kr.store
                THEN [saved EXCEPT ![kr.mgr[1].serviceName] = <<password>>]
                ELSE saved
    /\ res' = [op |-> op, password |-> password, connected |-> IsConnected(db),
               err |-> r.err,
               value |-> IF op = "IsAuthenticated" THEN <<r.value>> ELSE <<>>]
    /\ UNCHANGED <<now, clip, searchVars>>

DoAuthenticate(password) ==
    /\ Len(db.auth_attempts) < MaxLogLen
    /\ \E env \in Environments, response \in {"y", "n"}, generated \in GeneratedKeys :
         SessionCall("Authenticate", password,
                     Authenticate(auth, db, kr, now, password, env, response, generated))

DoIsAuthenticated == SessionCall("IsAuthenticated", <<>>, IsAuthenticated(auth, db, kr, now))

DoRefreshSession == SessionCall("RefreshSession", <<>>, RefreshSession(auth, db, kr, now))

DoLogout == SessionCall("Logout", <<>>, Logout(auth, db, kr, now))

\* time passes
Tick(step, max) ==
    /\ now + step <= max
    /\ now' = now + step
    /\ UNCHANGED <<kr, saved, db, auth, clip, res, searchVars>>

(***************************************************************************)
(* Clipboard operations, the timer and its callbacks, other programs that  *)
(* write the clipboard, and the end of the process.                        *)
(***************************************************************************)
ClipStep(op, text, c, e) ==
    /\ clip' = c
    /\ res' = [op |-> op, text |-> text, err |-> e]
    /\ UNCHANGED <<kr, saved, db, auth, now, searchVars>>

\* Manager.Copy(text), as `lockr get` calls it through
\* CopySecretWithNotification
DoCopy(text) ==
    /\ clip.alive
    /\ clip.copies < MaxCopies
    /\ now + clip.clearDelay <= MaxClipTime
    /\ \E copyFails \in BOOLEAN :
         LET r == Copy(clip, now, text, copyFails)
         IN ClipStep("Copy", text, r.clip, r.err)

DoClear ==
    /\ clip.alive
    /\ ClipStep("Clear", NoText, Clear(clip), "nil")

TimerFires ==
    /\ clip.alive
    /\ clip.clearTimer # <<>>
    /\ clip.clearTimer[1].state = "pending"
    /\ now >= clip.clearTimer[1].at
    /\ clip' = Fire(clip)
    /\ UNCHANGED <<kr, saved, db, auth, now, res, searchVars>>

CallbackStep(j) ==
    /\ clip.alive
    /\ j \in 1..Len(clip.callbacks)
    /\ clip' = clearIfUnchanged(clip, j)
    /\ UNCHANGED <<kr, saved, db, auth, now, res, searchVars>>

\* another program writes the clipboard
ExternalWrite(text) ==
    /\ clip.system # text
    /\ clip' = [clip EXCEPT !.system = text]
    /\ UNCHANGED <<kr, saved, db, auth, now, res, searchVars>>

\* main returns after rootCmd.Execute, or handleError calls os.Exit
ProcessExit ==
    /\ clip.alive
    /\ clip' = Exit(clip)
    /\ UNCHANGED <<kr, saved, db, auth, now, res, searchVars>>

\* the services while another specification runs
KeyringIdle == kr = NewKeyring /\ saved = [s \in Services |-> <<>>]
VaultIdle == db = NewVaultDatabase({}, <<>>) /\ auth = NewSessionManager
ClipIdle == clip = NewClipboard(NoText)
ServicesIdle == KeyringIdle /\ VaultIdle /\ ClipIdle /\ now = 0 /\ res = NoResult
SearchIdle == EngineIdle /\ SessionIdle

(***************************************************************************)
(* The scoring specification: Search over one candidate, with queries and  *)
(* labels of any character of the model, under every setting of case       *)
(* sensitivity and highlighting.                                           *)
(***************************************************************************)
ScoreLabels == StringsOver(FullAlphabet, 0, MaxScoreLabelLen)
ScoreQueries == StringsOver(FullAlphabet, 0, MaxScoreQueryLen)

InitScore ==
    /\ engine = NewEngine
    /\ query \in ScoreQueries
    /\ secrets \in {<<SearchResult(a)>> : a \in ScoreLabels}
    /\ out = NoCall
    /\ SessionIdle
    /\ ServicesIdle

NextScore ==
    \/ \E b \in BOOLEAN : SetCaseSensitive(b)
    \/ \E b \in BOOLEAN : SetHighlightMatches(b)
    \/ DoSearch
    \/ DoGetMatchQuality

SpecScore == InitScore /\ [][NextScore]_vars

(***************************************************************************)
(* The ranking specification: Search over two candidates.                  *)
(***************************************************************************)
RankLabels == StringsOver(LowerAlphabet, 0, MaxRankLabelLen)
RankQueries == StringsOver(LowerAlphabet, 1, MaxRankQueryLen)
MixedLabels == StringsOver(AsciiAlphabet, 0, MaxMixedLabelLen)
MixedQueries == StringsOver(AsciiAlphabet, 1, MaxMixedQueryLen)

Pairs(L) == {<<SearchResult(a), SearchResult(b)>> : a \in L, b \in L}

InitRank ==
    /\ engine = NewEngine
    /\ \/ query \in RankQueries /\ secrets \in Pairs(RankLabels)
       \/ query \in MixedQueries /\ secrets \in Pairs(MixedLabels)
    /\ out = NoCall
    /\ SessionIdle
    /\ ServicesIdle

NextRank ==
    \/ \E b \in BOOLEAN : SetCaseSensitive(b)
    \/ DoSearch

SpecRank == InitRank /\ [][NextRank]_vars

(***************************************************************************)
(* The result-cap specification: Search and SearchInteractive over up to   *)
(* MaxLimitSecrets one-letter candidates under caps -1..MaxCap and the     *)
(* default cap.                                                            *)
(***************************************************************************)
LimitLabels == StringsOver(AsciiAlphabet, 1, 1)
LimitQueries == StringsOver(AsciiAlphabet, 0, 1)
LimitSecretLists ==
    UNION {[1..n -> {SearchResult(a) : a \in LimitLabels}] : n \in 0..MaxLimitSecrets}
Caps == (-1..MaxCap) \cup {NewEngine.maxResults}

InitLimit ==
    /\ engine = NewEngine
    /\ query \in LimitQueries
    /\ secrets \in LimitSecretLists
    /\ out = NoCall
    /\ SessionIdle
    /\ ServicesIdle

NextLimit ==
    \/ \E c \in Caps : SetMaxResults(c)
    \/ DoSearch
    \/ \E c \in Caps : DoSearchInteractive(c)

SpecLimit == InitLimit /\ [][NextLimit]_vars

(***************************************************************************)
(* The suggestion specification: GetQuerySuggestions over the candidate    *)
(* lists of the result-cap specification (labels repeat in them), for      *)
(* prefixes of up to one character and 0..MaxCap suggestions asked for.    *)
(***************************************************************************)
InitSuggest ==
    /\ engine = NewEngine
    /\ query \in LimitQueries
    /\ secrets \in LimitSecretLists
    /\ out = NoCall
    /\ SessionIdle
    /\ ServicesIdle

NextSuggest ==
    \/ \E b \in BOOLEAN : SetCaseSensitive(b)
    \/ \E n \in 0..MaxCap : DoGetQuerySuggestions(n)

SpecSuggest == InitSuggest /\ [][NextSuggest]_vars

(***************************************************************************)
(* The substring specification: Search over two candidates whose labels    *)
(* are an occurrence of the query behind 0..MaxPad other characters, so    *)
(* that offsets on both sides of the floor of the substring score occur.   *)
(***************************************************************************)
Pad(n) == [i \in 1..n |-> Rune_b]
SubstringSuffixes == {<<Rune_k>>, <<Rune_K>>, <<Rune_Kelvin, Rune_k>>, <<Rune_k, Rune_b>>}
SubstringLabels == {Pad(n) \o x : n \in 0..MaxPad, x \in SubstringSuffixes}
SubstringQueries == {<<Rune_k>>, <<Rune_K>>, <<Rune_Kelvin>>, <<Rune_k, Rune_b>>}

InitSubstring ==
    /\ engine = NewEngine
    /\ query \in SubstringQueries
    /\ secrets \in {<<SearchResult(a), SearchResult(b)>> : a, b \in SubstringLabels}
    /\ out = NoCall
    /\ SessionIdle
    /\ ServicesIdle

NextSubstring ==
    \/ \E b \in BOOLEAN : SetCaseSensitive(b)
    \/ DoSearch

SpecSubstring == InitSubstring /\ [][NextSubstring]_vars

(***************************************************************************)
(* The fuzzy specification: Search over one candidate whose label is up to *)
(* two letters, 0..MaxGap other characters, up to two letters and up to    *)
(* one other character, so that runs of consecutive matches, gaps and      *)
(* labels long enough for the floor of the fuzzy score occur.              *)
(***************************************************************************)
FuzzyRuns == StringsOver({Rune_k, Rune_K}, 0, 2)
FuzzyLabels ==
    {a \o Pad(n) \o c \o Pad(tail) :
        a \in FuzzyRuns, n \in 0..MaxGap, c \in StringsOver({Rune_k}, 0, 2), tail \in 0..1}
FuzzyQueries == StringsOver(AsciiAlphabet, 1, 3)

InitFuzzy ==
    /\ engine = NewEngine
    /\ query \in FuzzyQueries
    /\ secrets \in {<<SearchResult(a)>> : a \in FuzzyLabels}
    /\ out = NoCall
    /\ SessionIdle
    /\ ServicesIdle

NextFuzzy ==
    \/ \E b \in BOOLEAN : SetCaseSensitive(b)
    \/ \E b \in BOOLEAN : SetHighlightMatches(b)
    \/ DoSearch

SpecFuzzy == InitFuzzy /\ [][NextFuzzy]_vars

(***************************************************************************)
(* The session specification.  The candidates are unique up to letter      *)
(* case, as the keys of the vault are: a run of consecutive keys of the    *)
(* sorted lower-case keys, every second key of them stored in upper case.  *)
(* The empty label is one of the keys: the session takes any candidates.   *)
(***************************************************************************)
RECURSIVE SortedSeq(_)
SortedSeq(S) ==
    IF S = {} THEN <<>>
    ELSE LET x == CHOOSE x \in S : \A y \in S : ~StringLess(y, x)
         IN <<x>> \o SortedSeq(S \ {x})

SessionPool == SortedSeq(StringsOver(LowerAlphabet, 0, MaxKeyLen))

ToUpper(s) == [i \in 1..Len(s) |-> s[i] - 32]

\* the key at position p of the pool, as stored
StoredKey(p) == IF p % 2 = 0 THEN ToUpper(SessionPool[p]) ELSE SessionPool[p]

Window(o, n) == [i \in 1..n |-> StoredKey(((o + i - 2) % Len(SessionPool)) + 1)]

SessionSecretLists ==
    LET windows == {Window(o, n) : o \in {o \in 1..Len(SessionPool) : o % 4 = 1},
                                   n \in 0..MaxSecrets}
    IN {[i \in 1..Len(w) |-> SearchResult(w[i])] : w \in windows}

Init ==
    /\ \E ss \in SessionSecretLists : is = NewInteractiveSearch(ss)
    /\ m = NewModel
    /\ running = TRUE
    /\ quitSent = FALSE
    /\ late = 0
    /\ last = NoKeyMsg
    /\ EngineIdle
    /\ ServicesIdle

Next ==
    \/ \E ch \in AsciiAlphabet : KeyChar(ch)
    \/ KeyBackspace
    \/ KeyUp
    \/ KeyDown
    \/ KeyEnter
    \/ KeyEsc
    \/ QuitMsg

Spec == Init /\ [][Next]_vars

(***************************************************************************)
(* The keyring specification: two managers over one system keyring.        *)
(* Manager 1 is enabled, disabled and pointed to another service name;     *)
(* manager 2 is a second instance left as NewManager made it.              *)
(***************************************************************************)
InitKeyring ==
    /\ KeyringIdle
    /\ VaultIdle /\ ClipIdle /\ now = 0 /\ res = NoResult
    /\ SearchIdle

NextKeyring ==
    \/ \E i \in Managers, p \in Passwords : DoSavePassword(i, p)
    \/ \E i \in Managers, p \in Passwords : DoUpdatePassword(i, p)
    \/ \E i \in Managers : DoGetPassword(i)
    \/ \E i \in Managers : DoDeletePassword(i)
    \/ \E i \in Managers : DoHasPassword(i)
    \/ \E i \in Managers : DoSetMasterKey(i)
    \/ \E i \in Managers : DoClearCache(i)
    \/ \E b \in BOOLEAN : DoSetEnabled(1, b)
    \/ \E s \in Services : DoSetServiceName(1, s)

SpecKeyring == InitKeyring /\ [][NextKeyring]_vars

(***************************************************************************)
(* The vault specification: the operations of a VaultDatabase on a vault   *)
(* of up to two secrets.                                                   *)
(***************************************************************************)
InitVault ==
    /\ VaultIdle
    /\ KeyringIdle /\ ClipIdle /\ now = 0 /\ res = NoResult
    /\ SearchIdle

NextVault ==
    \/ \E p \in Passwords : DoConnect(p)
    \/ DoClose
    \/ \E key \in KeyArgs, v \in VaultValues : DoCreateSecret(key, v)
    \/ \E key \in KeyArgs : DoGetSecret(key)
    \/ \E key \in KeyArgs, v \in VaultValues : DoUpdateSecret(key, v)
    \/ \E key \in KeyArgs : DoDeleteSecret(key)
    \/ DoListSecrets
    \/ \E key \in KeyArgs : DoSearchSecrets(key)

SpecVault == InitVault /\ [][NextVault]_vars

(***************************************************************************)
(* The authentication specification: a session Manager over the vault,     *)
(* callers that also use the VaultDatabase directly, and the clock.        *)
(***************************************************************************)
InitAuth ==
    /\ VaultIdle
    /\ KeyringIdle /\ ClipIdle /\ now = 0 /\ res = NoResult
    /\ SearchIdle

NextAuth ==
    \/ \E p \in Passwords : DoAuthenticate(p)
    \/ DoIsAuthenticated
    \/ DoRefreshSession
    \/ DoLogout
    \/ \E p \in Passwords : DoConnect(p)
    \/ DoClose
    \/ Tick(SessionClockStep, MaxSessionTime)

SpecAuth == InitAuth /\ [][NextAuth]_vars

(***************************************************************************)
(* The clipboard specification: one process with a clipboard Manager, the  *)
(* system clipboard and other programs writing it.  The timer and the      *)
(* callbacks run whenever they can, and so does the clock.                 *)
(***************************************************************************)
InitClip ==
    /\ clip \in {NewClipboard(t) : t \in ClipTexts \cup {NoText}}
    /\ KeyringIdle /\ VaultIdle /\ now = 0 /\ res = NoResult
    /\ SearchIdle

NextClip ==
    \/ \E t \in ClipTexts : DoCopy(t)
    \/ DoClear
    \/ TimerFires
    \/ \E j \in 1..MaxCopies : CallbackStep(j)
    \/ \E t \in ClipTexts : ExternalWrite(t)
    \/ ProcessExit
    \/ Tick(ClipClockStep, MaxClipTime)

SpecClip ==
    /\ InitClip
    /\ [][NextClip]_vars
    /\ WF_vars(TimerFires)
    /\ \A j \in 1..MaxCopies : WF_vars(CallbackStep(j))
    /\ WF_vars(Tick(ClipClockStep, MaxClipTime))

(***************************************************************************)
(* Properties                                                              *)
(***************************************************************************)
Min(a, b) == IF a < b THEN a ELSE b

\* normalization as the documentation states it: lower case unless case-sensitive
Normalized(s) == IF engine.caseSensitive THEN s ELSE ToLower(s)

\* q is an ordered, not necessarily contiguous, subsequence of t
IsSubsequence(q, t) ==
    \E f \in [1..Len(q) -> 1..Len(t)] :
        /\ \A i \in 1..Len(q) : t[f[i]] = q[i]
        /\ \A i \in 1..Len(q), j \in 1..Len(q) : i < j => f[i] < f[j]

\* q occurs in t as a contiguous substring
IsSubstring(q, t) ==
    \E i \in 0..(Len(t) - Len(q)) : \A k \in 1..Len(q) : t[i + k] = q[k]

\* a <= b in lexicographic order
LexLeq(a, b) ==
    \/ /\ Len(a) <= Len(b)
       /\ \A k \in 1..Len(a) : a[k] = b[k]
    \/ \E k \in 1..Min(Len(a), Len(b)) :
        /\ \A i \in 1..(k - 1) : a[i] = b[i]
        /\ a[k] < b[k]

\* the tier of a label against the query: 1 exact, 2 prefix, 3 substring,
\* 4 fuzzy (subsequence only), 5 no match
TierOf(q, t) ==
    IF q = t THEN 1
    ELSE IF IsSubstring(q, t) /\ SubSeq(t, 1, Len(q)) = q THEN 2
    ELSE IF IsSubstring(q, t) THEN 3
    ELSE IF IsSubsequence(q, t) THEN 4
    ELSE 5

SearchReturned == out.op = "Search" /\ ~out.panicked
IsHundred(sc) == sc.n = 100 * sc.d

\* C1: whenever the visible result list of the session is non-empty, the
\* selected index satisfies 0 <= selected < len(results).
C1_SelectedInBounds ==
    Len(is.results) > 0 => (0 <= is.selected /\ is.selected < Len(is.results))

\* C1 witness: after typing and moving, the cursor is on the last of several results
C1_Witness ==
    /\ Len(is.query) > 0
    /\ Len(is.results) >= 2
    /\ is.selected = Len(is.results) - 1

\* C2: the number of visible results never exceeds MaxDisplayResults (5).
C2_DisplayLimit == Len(is.results) <= MaxDisplayResults

\* C2 witness: more candidates match the typed query than are shown
C2_Witness ==
    /\ Len(is.query) > 0
    /\ Len(scoreSecrets(is.engine, is.query, is.secrets)) > MaxDisplayResults
    /\ Len(is.results) = MaxDisplayResults

\* C3: a candidate whose label equals the query (up to case unless
\* case-sensitive) is returned with score exactly 100, and is first in the
\* result whenever no other candidate also scores 100.
C3_ExactMatchFirst ==
    SearchReturned =>
        \A i \in 1..Len(secrets) :
            Normalized(secrets[i].Key) = Normalized(query) =>
                /\ \E j \in 1..Len(out.results) :
                      /\ out.results[j].Result = secrets[i]
                      /\ IsHundred(out.results[j].Score)
                /\ (\A j \in 1..Len(out.results) :
                       IsHundred(out.results[j].Score) => out.results[j].Result = secrets[i])
                   => out.results[1].Result = secrets[i]

\* C4: for one query the scores are tiered: exact > prefix > substring >=
\* fuzzy; a fuzzy match never outranks a literal substring match.
C4_TieredScores ==
    SearchReturned =>
        \A i \in 1..Len(out.results), j \in 1..Len(out.results) :
            LET a == out.results[i]
                b == out.results[j]
                ta == TierOf(Normalized(query), Normalized(a.Result.Key))
                tb == TierOf(Normalized(query), Normalized(b.Result.Key))
            IN ta < tb =>
                 IF ta = 3 /\ tb = 4 THEN ~ScoreLess(a.Score, b.Score)
                 ELSE ScoreLess(b.Score, a.Score)

\* C5: for a non-empty query and a cap larger than the candidate set, a
\* candidate is in Search's result if and only if the normalized query is an
\* ordered subsequence of its normalized label; no result has score <= 0.
C5_MatchIffSubsequence ==
    (SearchReturned /\ Len(query) > 0 /\ out.cap > Len(secrets)) =>
        /\ \A i \in 1..Len(secrets) :
              (\E j \in 1..Len(out.results) : out.results[j].Result = secrets[i])
              <=> IsSubsequence(Normalized(query), Normalized(secrets[i].Key))
        /\ \A j \in 1..Len(out.results) : out.results[j].Score.n > 0

\* C5 witness: a candidate matched only as a non-contiguous subsequence is returned
C5_Witness ==
    /\ SearchReturned
    /\ Len(query) > 0
    /\ Len(out.results) = 1
    /\ ~IsSubstring(Normalized(query), Normalized(out.results[1].Result.Key))

\* C6: every highlight range of every result of Search satisfies
\* 0 <= start < end <= len(label), and the ranges are sorted ascending by
\* start and do not overlap.
C6_HighlightsValid ==
    SearchReturned =>
        \A j \in 1..Len(out.results) :
            LET h == out.results[j].Highlights
                label == out.results[j].Result.Key
            IN /\ \A k \in 1..Len(h) :
                    0 <= h[k].Start /\ h[k].Start < h[k].End /\ h[k].End <= ByteLen(label)
               /\ \A k \in 1..(Len(h) - 1) : h[k].End <= h[k + 1].Start

C8_EmptyQueryBrowse ==
    (out.op = "Search" /\ Len(query) = 0 /\ out.cap >= 0) =>
        /\ ~out.panicked
        /\ Len(out.results) = Min(out.cap, Len(secrets))
        /\ \A i \in 1..Len(out.results) :
              /\ out.results[i].Result = secrets[i]
              /\ out.results[i].Score.n = 0
              /\ out.results[i].Highlights = <<>>

\* C8 witness: an empty-query search cut short by the cap, over candidates
\* that are not in sorted order
C8_Witness ==
    /\ SearchReturned
    /\ Len(query) = 0
    /\ out.cap > 0
    /\ Len(out.results) = out.cap
    /\ out.cap < Len(secrets)
    /\ ~LexLeq(secrets[1].Key, secrets[Len(secrets)].Key)

\* the sorted lists of all matching candidates: Search under a cap no list exceeds
FullySorted ==
    {r.results : r \in Search([engine EXCEPT !.maxResults = Len(secrets)], query, secrets)}

\* C9: for a cap m >= 0 the result of Search (maxResults = m) or of
\* SearchInteractive(query, candidates, m) is the first min(m, k) elements of
\* the fully sorted list of all k matches; it never has more than m elements.
C9_TruncationIsPrefix ==
    (out.op # "none" /\ out.cap >= 0) =>
        /\ ~out.panicked
        /\ Len(out.results) <= out.cap
        /\ \E full \in FullySorted :
              out.results = SubSeq(full, 1, Min(out.cap, Len(full)))

\* C9 witness: SearchInteractive returned fewer results than there are matches
C9_Witness ==
    /\ out.op = "SearchInteractive"
    /\ ~out.panicked
    /\ Len(query) > 0
    /\ out.cap >= 1
    /\ Len(out.results) = out.cap
    /\ \E full \in FullySorted : Len(full) > out.cap

\* C10: after the cap has been set to an invalid value such as -1, Search
\* (and SearchInteractive) still completes and returns a result list.
C10_SearchNeverAborts == out.op # "none" => ~out.panicked

(***************************************************************************)
(* Properties of the session's operations.                                 *)
(***************************************************************************)
\* the step is Update handling the key message key: the program stays
\* running and the message is the one left in last
Handles(key) == running' /\ last'.key = key

\* the outcome "no selection" as the caller receives it: the empty string
NoSelection == <<>>

\* the first min(5, k) results of a search of the candidates for q under cap 10
VisibleFor(q, candidates) ==
    {SubSeq(r.results, 1, Min(5, Len(r.results))) :
       r \in Search([NewEngine EXCEPT !.maxResults = 10], q, candidates)}

\* the number of candidates the query matches: all of them if the query is
\* empty, else those of which the lower-cased query is a subsequence
TotalMatching(s) ==
    Cardinality({i \in 1..Len(s.secrets) :
                   Len(s.query) = 0 \/ IsSubsequence(ToLower(s.query), ToLower(s.secrets[i].Key))})

\* C11: after every query mutation (AddChar(c), or RemoveChar on a non-empty
\* query) the query is the old query with c appended / its last character
\* removed, the visible results are the first min(5, k) elements of
\* Search(new query, candidates) run with cap 10, and the selected index is 0.
C11_QueryMutation ==
    [][/\ Handles("char") =>
            /\ is'.query = Append(is.query, last'.ch)
            /\ is'.results \in VisibleFor(is'.query, is.secrets)
            /\ is'.selected = 0
       /\ (Handles("backspace") /\ Len(is.query) > 0) =>
            /\ is'.query = SubSeq(is.query, 1, Len(is.query) - 1)
            /\ is'.results \in VisibleFor(is'.query, is.secrets)
            /\ is'.selected = 0]_vars

\* C11 witness: a character was typed while the cursor was below the first
\* result; more than five candidates match the new query
C11_Witness ==
    /\ last.key = "char"
    /\ last.selected > 0
    /\ is.selected = 0
    /\ Len(is.results) = 5
    /\ TotalMatching(is) > 5

\* C12: RemoveChar on a session whose query is empty changes neither the
\* query nor the visible results nor the selected index.
C12_RemoveCharEmptyNoop ==
    [][(Handles("backspace") /\ Len(is.query) = 0) =>
          /\ is'.query = is.query
          /\ is'.results = is.results
          /\ is'.selected = is.selected]_vars

\* C12 witness: backspace on an empty query left several visible results and
\* a cursor below the first of them as they were
C12_Witness ==
    /\ last.key = "backspace"
    /\ Len(is.query) = 0
    /\ Len(is.results) >= 2
    /\ last.selected > 0
    /\ is.selected = last.selected

\* C13: MoveSelection(d), d in {-1, +1}, with N >= 1 visible results sets the
\* selected index to (selected + d) mod N; with N = 0 it changes nothing; the
\* query and the visible results are unchanged in all cases.
C13_MoveSelectionWraps ==
    [][\A d \in {-1, 1} :
         Handles(IF d = 1 THEN "down" ELSE "up") =>
            LET N == Len(is.results)
            IN /\ is'.query = is.query
               /\ is'.results = is.results
               /\ is'.selected = IF N >= 1 THEN (is.selected + d) % N ELSE is.selected]_vars

\* C13 witness: moving up from the first of at least three results selected
\* the last one
C13_Witness ==
    /\ last.key = "up"
    /\ last.selected = 0
    /\ Len(is.results) >= 3
    /\ is.selected = Len(is.results) - 1

\* the session has just left its active state by the key message in last
JustEnded(key) == quitSent /\ late = 0 /\ last.key = key

\* C14: when the session is finalized (Enter), the outcome is the label of the
\* result at the selected index if the visible results are non-empty, and "no
\* selection" otherwise; the label is one of the visible results.
C14_FinalizeOutcome ==
    JustEnded("enter") =>
        IF Len(is.results) > 0
        THEN /\ m.selected # <<>>
             /\ RunInteractiveSearch(m) = is.results[is.selected + 1].Result.Key
             /\ \E i \in 1..Len(is.results) : is.results[i].Result.Key = RunInteractiveSearch(m)
        ELSE /\ m.selected = <<>>
             /\ RunInteractiveSearch(m) = NoSelection

\* C14 witness: the program has returned after Enter on a result below the
\* first one
C14_Witness ==
    /\ JustEnded("enter")
    /\ ~running
    /\ Len(is.query) > 0
    /\ is.selected > 0
    /\ RunInteractiveSearch(m) = is.results[is.selected + 1].Result.Key
    /\ RunInteractiveSearch(m) # is.results[1].Result.Key

\* C15: cancelling the session (Esc, Ctrl+C) from any active state yields "no
\* selection", whatever the query, the visible results and the selected index.
C15_CancelOutcome ==
    JustEnded("esc") =>
        /\ m.quitting
        /\ m.selected = <<>>
        /\ RunInteractiveSearch(m) = NoSelection

\* C15 witness: the program has returned after Esc with a non-empty query and
\* the cursor on a result
C15_Witness ==
    /\ JustEnded("esc")
    /\ ~running
    /\ Len(is.query) > 0
    /\ Len(is.results) >= 2
    /\ is.selected > 0
    /\ RunInteractiveSearch(m) = NoSelection

\* C16: once the session has been finalized or cancelled, no later key
\* message changes the query, the visible results, the selected index or the
\* recorded outcome.
C16_TerminalStates ==
    [][(quitSent /\ \E key \in {"char", "backspace", "up", "down", "enter", "esc"} :
                        Handles(key)) =>
          /\ is'.query = is.query
          /\ is'.results = is.results
          /\ is'.selected = is.selected
          /\ m' = m]_vars

\* C17: the value a finished session hands to its caller tells "a candidate
\* was selected" from "no selection", also for a candidate with an empty label.
C17_OutcomesDistinct ==
    (~running /\ quitSent /\ m.selected # <<>>) => RunInteractiveSearch(m) # NoSelection

\* C18: whenever results are visible, the count of the "... and N more
\* results" line is the number of candidates matching the query minus the
\* number of visible results.
C18_OverflowCount ==
    (running /\ ~m.quitting /\ Len(is.results) > 0) =>
        \A n \in RenderMoreCount(is) : n = TotalMatching(is) - Len(is.results)

(***************************************************************************)
(* Properties of case sensitivity and of GetMatchQuality.                  *)
(***************************************************************************)
\* the candidate is among the results of the last call
IsReturned(secret) == \E j \in 1..Len(out.results) : out.results[j].Result = secret

\* the score the last call gave the candidate, 0 if it did not return it
ScoreOf(secret) ==
    IF IsReturned(secret)
    THEN out.results[CHOOSE j \in 1..Len(out.results) : out.results[j].Result = secret].Score
    ELSE Score(0, 1)

\* the string in upper case
UpperCased(s) == ToUpper(ToLower(s))

\* C19: with caseSensitive=false a (non-empty) query matches every label that
\* equals it up to letter case, each with score 100, and the score of a label
\* does not change when the case of query or label changes; with
\* caseSensitive=true, of the labels that differ from the query only in
\* letter case only the one equal to it character for character is returned.
\* The setting in force is the one of the last SetCaseSensitive call.
C19_CaseSensitivity ==
    (SearchReturned /\ Len(query) > 0) =>
        \A i \in 1..Len(secrets) :
            LET label == secrets[i].Key
            IN /\ ToLower(label) = ToLower(query) =>
                    IF engine.caseSensitive
                    THEN IsReturned(secrets[i]) <=> label = query
                    ELSE IsReturned(secrets[i]) /\ IsHundred(ScoreOf(secrets[i]))
               /\ ~engine.caseSensitive =>
                    /\ ScoreEq(ScoreOf(secrets[i]),
                               scoreMatch(engine, ToLower(query), ToLower(label)).score)
                    /\ ScoreEq(ScoreOf(secrets[i]),
                               scoreMatch(engine, UpperCased(query), label).score)
                    /\ ScoreEq(ScoreOf(secrets[i]),
                               scoreMatch(engine, query, UpperCased(label)).score)

\* C19 witness: a case-sensitive search over two different labels that both
\* equal the query up to letter case returned one of them
C19_Witness ==
    /\ SearchReturned
    /\ engine.caseSensitive
    /\ Len(query) = 2
    /\ secrets[1] # secrets[2]
    /\ \A i \in 1..2 : ToLower(secrets[i].Key) = ToLower(query)
    /\ Len(out.results) = 1
    /\ out.results[1].Result.Key = query

\* C20: GetMatchQuality returns the tier scoreMatch scores the same pair in
\* (Exact, then Prefix, then Substring, then Fuzzy), and NoMatch exactly when
\* scoreMatch returns score 0, that is when Search excludes the label.
C20_QualityIsScoringTier ==
    out.op = "GetMatchQuality" =>
        LET sm == scoreMatch(engine, query, out.target)
        IN /\ out.quality = sm.tier
           /\ out.quality + 1 = TierOf(Normalized(query), Normalized(out.target))
           /\ out.quality = NoMatch <=> sm.score.n = 0
           /\ Len(query) > 0 =>
                (out.quality = NoMatch
                   <=> scoreSecrets(engine, query, <<SearchResult(out.target)>>) = <<>>)

\* C20 witness: a pair classified Fuzzy under case-insensitive matching whose
\* label holds the query's letters in the other case
C20_Witness ==
    /\ out.op = "GetMatchQuality"
    /\ out.quality = FuzzyMatch
    /\ ~engine.caseSensitive
    /\ Len(query) = 2
    /\ \A i \in 1..Len(out.target) : out.target[i] # query[1]

(***************************************************************************)
(* Properties of GetQuerySuggestions.                                      *)
(***************************************************************************)

\* the labels of the candidates whose normalized form starts with the
\* normalized prefix, each label once, in candidate order
RECURSIVE DistinctMatching(_, _, _)
DistinctMatching(prefix, ss, acc) ==
    IF ss = <<>> THEN acc
    ELSE LET key == Head(ss).Key
             fresh == \A j \in 1..Len(acc) : acc[j] # key
         IN DistinctMatching(prefix, Tail(ss),
                IF HasPrefix(Normalized(key), Normalized(prefix)) /\ fresh
                THEN Append(acc, key) ELSE acc)

\* C21: for every prefix, the empty prefix included, and every max >= 0,
\* GetQuerySuggestions returns the first max distinct labels, in candidate
\* order, whose normalized form starts with the normalized prefix: at most
\* max labels, none repeated.
C21_SuggestionsAreFirstMax ==
    out.op = "GetQuerySuggestions" =>
        LET all == DistinctMatching(query, secrets, <<>>)
        IN /\ Len(out.suggestions) <= out.cap
           /\ out.suggestions = SubSeq(all, 1, Min(out.cap, Len(all)))

\* C34: in every reachable state of the session, the state before any key
\* included, the visible results are the first min(5, k) elements of
\* Search(current query, candidates): they depend on the query alone.
C34_ResultsFollowQuery == is.results \in VisibleFor(is.query, is.secrets)

\* the candidate lists that hold the candidates of ss in another order
Reorderings(ss) ==
    {[i \in 1..Len(ss) |-> ss[p[i]]] :
       p \in {f \in [1..Len(ss) -> 1..Len(ss)] : \A i, j \in 1..Len(ss) : f[i] = f[j] => i = j}}

\* C35: for a non-empty query and candidates with pairwise distinct labels,
\* Search returns the same results in the same order for every order in
\* which the candidates are passed.
C35_OrderIndependent ==
    (/\ SearchReturned
     /\ Len(query) > 0
     /\ out.cap >= Len(secrets)
     /\ \A i, j \in 1..Len(secrets) : secrets[i].Key = secrets[j].Key => i = j) =>
        \A ss \in Reorderings(secrets) :
            \A r \in Search(engine, query, ss) : r.results = out.results

(***************************************************************************)
(* Properties of the substring and fuzzy tiers.                            *)
(***************************************************************************)

\* the byte offset of the first occurrence of q in t
FirstOffset(q, t) ==
    LET at == {i \in 0..(Len(t) - Len(q)) : \A k \in 1..Len(q) : t[i + k] = q[k]}
    IN ByteLen(SubSeq(t, 1, Minimum(at)))

\* the label is in the substring tier: it contains the normalized query,
\* does not equal it and does not start with it
InSubstringTier(label) == TierOf(Normalized(query), Normalized(label)) = 3

OffsetOf(label) == FirstOffset(Normalized(query), Normalized(label))

\* C31: a label of the substring tier is returned with score
\* max(50, 80 - 2*idx), idx the offset of the first occurrence of the
\* normalized query in the normalized label, and with the one highlight
\* range [idx, idx + len(query)); of two such labels the one whose
\* occurrence is nearer the start does not score lower.
C31_SubstringScore ==
    (SearchReturned /\ engine.highlightMatches /\ out.cap >= Len(secrets)) =>
        /\ \A i \in 1..Len(secrets) :
              InSubstringTier(secrets[i].Key) =>
                \E j \in 1..Len(out.results) :
                    LET idx == OffsetOf(secrets[i].Key)
                    IN /\ out.results[j].Result = secrets[i]
                       /\ out.results[j].Score =
                             Score(IF 80 - 2 * idx > 50 THEN 80 - 2 * idx ELSE 50, 1)
                       /\ out.results[j].Highlights =
                             <<HighlightRange(idx, idx + ByteLen(query))>>
        /\ \A i, j \in 1..Len(out.results) :
              LET a == out.results[i]
                  b == out.results[j]
              IN (/\ InSubstringTier(a.Result.Key)
                  /\ InSubstringTier(b.Result.Key)
                  /\ OffsetOf(a.Result.Key) <= OffsetOf(b.Result.Key)) =>
                     ~ScoreLess(a.Score, b.Score)

\* C31 witness: two labels of the substring tier, one scored above the
\* floor and one, whose occurrence is at offset 16 or later, scored 50
C31_Witness ==
    /\ SearchReturned
    /\ Len(out.results) = 2
    /\ InSubstringTier(out.results[1].Result.Key)
    /\ InSubstringTier(out.results[2].Result.Key)
    /\ OffsetOf(out.results[1].Result.Key) = 1
    /\ OffsetOf(out.results[2].Result.Key) >= 16
    /\ out.results[1].Score = Score(78, 1)
    /\ out.results[2].Score = Score(50, 1)

\* the positions (1-based) of t matched to the characters of q when each
\* character takes the earliest position after the one before it; 0 for a
\* character, and those after it, that finds none
RECURSIVE Greedy(_, _, _)
Greedy(q, t, from) ==
    IF q = <<>> THEN <<>>
    ELSE LET free == {i \in from..Len(t) : t[i] = Head(q)}
         IN IF free = {} THEN [k \in 1..Len(q) |-> 0]
            ELSE <<Minimum(free)>> \o Greedy(Tail(q), t, Minimum(free) + 1)

\* the length of the run of consecutive matches that ends at the k-th match
RECURSIVE RunLength(_, _)
RunLength(pos, k) ==
    IF k = 1 \/ pos[k] # pos[k - 1] + 1 THEN 1 ELSE RunLength(pos, k - 1) + 1

\* twice the sum of 2.0 + 0.5*r over the first k matches
RECURSIVE TwiceBonus(_, _)
TwiceBonus(pos, k) ==
    IF k = 0 THEN 0 ELSE TwiceBonus(pos, k - 1) + 4 + RunLength(pos, k)

\* the label is scored by the fuzzy tier: the normalized query is no
\* substring of the normalized label
InFuzzyTier(label) == ~IsSubstring(Normalized(query), Normalized(label))

\* C32: for a label scored by the fuzzy tier the query characters take the
\* earliest label positions from left to right; if a character finds none
\* the label is not a match; otherwise the score is
\* max(10, B * (len(query)/len(label)) * 20) with B the sum of 2.0 + 0.5*r
\* over the matched characters, r the length of the run of consecutive
\* matches ending at the character.  Lengths are counted in characters.
C32_FuzzyScore ==
    (SearchReturned /\ Len(query) > 0 /\ out.cap >= Len(secrets)) =>
        \A i \in 1..Len(secrets) :
            LET q == Normalized(query)
                t == Normalized(secrets[i].Key)
                pos == Greedy(q, t, 1)
                raw == Score(TwiceBonus(pos, Len(q)) * 10 * Len(q), Len(t))
            IN InFuzzyTier(secrets[i].Key) =>
                 IF \E k \in 1..Len(q) : pos[k] = 0
                 THEN \A j \in 1..Len(out.results) : out.results[j].Result # secrets[i]
                 ELSE \E j \in 1..Len(out.results) :
                        /\ out.results[j].Result = secrets[i]
                        /\ ScoreEq(out.results[j].Score,
                                   IF ScoreLess(raw, Score(10, 1)) THEN Score(10, 1) ELSE raw)

\* C32 witness: a label of 21 characters or more matched across a gap is
\* returned with the least score, 10
C32_Witness ==
    /\ SearchReturned
    /\ Len(out.results) = 1
    /\ InFuzzyTier(out.results[1].Result.Key)
    /\ Len(out.results[1].Result.Key) >= 21
    /\ ScoreEq(out.results[1].Score, Score(10, 1))

\* the number of positions the first k ranges of h cover
RECURSIVE Covered(_, _)
Covered(h, k) == IF k = 0 THEN 0 ELSE Covered(h, k - 1) + (h[k].End - h[k].Start)

\* C36: for a non-empty query and highlighting enabled, the highlight ranges
\* of every result cover len(query) positions in total, and the ranges of a
\* result of the fuzzy tier are maximal runs: between two consecutive
\* ranges there is at least one position that is not highlighted.
C36_HighlightsCoverQuery ==
    (SearchReturned /\ Len(query) > 0 /\ engine.highlightMatches) =>
        \A j \in 1..Len(out.results) :
            LET h == out.results[j].Highlights
            IN /\ Covered(h, Len(h)) = ByteLen(query)
               /\ InFuzzyTier(out.results[j].Result.Key) =>
                     \A k \in 1..(Len(h) - 1) : h[k].End < h[k + 1].Start

(***************************************************************************)
(* Properties of the session timeout and of the authentication log.        *)
(***************************************************************************)

\* the step is a call of the session manager's or the database's operation op
AuthStep(op) == now' = now /\ res'.op = op

HasSession == auth.currentSession # <<>>
SessionExpired == HasSession /\ now > auth.currentSession[1].ExpiresAt

\* C22: a session times out after 15 minutes.  ExpiresAt is 15 minutes after
\* the successful Authenticate or RefreshSession that set it; once the time
\* is later than ExpiresAt, IsAuthenticated returns false, discards the
\* session and closes the database connection; IsAuthenticated returns true
\* only for a session that has not expired, and only Authenticate returning
\* nil gives a manager without such a session a session again.
C22_SessionTimeout ==
    [][ /\ (AuthStep("Authenticate") /\ res'.err = "nil") =>
              auth'.currentSession[1].ExpiresAt = now + 15
        /\ (AuthStep("RefreshSession") /\ res'.err = "nil") =>
              auth'.currentSession[1].ExpiresAt = now + 15
        /\ (AuthStep("IsAuthenticated") /\ SessionExpired) =>
              /\ res'.value = <<FALSE>>
              /\ auth'.currentSession = <<>>
              /\ ~IsConnected(db')
        /\ (AuthStep("IsAuthenticated") /\ res'.value = <<TRUE>>) =>
              HasSession /\ ~SessionExpired
        /\ ((~HasSession \/ SessionExpired) /\ auth'.currentSession # <<>>
              /\ now' <= auth'.currentSession[1].ExpiresAt) =>
              AuthStep("Authenticate") /\ res'.err = "nil"
      ]_vars

\* C22 witness: IsAuthenticated has found the session expired more than 15
\* minutes after Authenticate, and has closed the connection that was open
C22_Witness ==
    /\ res.op = "IsAuthenticated"
    /\ res.value = <<FALSE>>
    /\ res.connected
    /\ ~IsConnected(db)
    /\ auth.currentSession = <<>>
    /\ now > 15
    /\ db.auth_attempts # <<>>

\* C23: every call of Authenticate that fails because the password does not
\* open the vault adds a record (username, success = false) to the
\* auth_attempts log of the vault.
C23_FailedAttemptLogged ==
    [][ (AuthStep("Authenticate") /\ res'.err = "ErrAuthenticationFailed") =>
            db'.auth_attempts = Append(db.auth_attempts, AuthAttempt(CurrentUser, FALSE))
      ]_vars

\* C33: RefreshSession on a session that has not expired sets LastActivity
\* to now and ExpiresAt to now + 15 minutes and returns nil, so a session
\* whose last activity is at most 15 minutes ago has not expired; without a
\* session it returns ErrInvalidSession and changes nothing; on an expired
\* session it returns ErrSessionExpired, discards the session and closes
\* the database.
C33_RefreshRenews ==
    [][ /\ (AuthStep("RefreshSession") /\ HasSession /\ ~SessionExpired) =>
              /\ res'.err = "nil"
              /\ auth'.currentSession # <<>>
              /\ auth'.currentSession[1].LastActivity = now
              /\ auth'.currentSession[1].ExpiresAt = now + 15
              /\ auth'.currentSession[1].CreatedAt = auth.currentSession[1].CreatedAt
              /\ db' = db
        /\ (AuthStep("RefreshSession") /\ ~HasSession) =>
              res'.err = "ErrInvalidSession" /\ auth' = auth /\ db' = db
        /\ (AuthStep("RefreshSession") /\ SessionExpired) =>
              /\ res'.err = "ErrSessionExpired"
              /\ auth'.currentSession = <<>>
              /\ ~IsConnected(db')
        /\ (HasSession /\ now <= auth.currentSession[1].LastActivity + 15) =>
              ~SessionExpired
      ]_vars

\* C33 witness: a session created at time 0 is refreshed at time 30 or later
C33_Witness ==
    /\ res.op = "RefreshSession"
    /\ res.err = "nil"
    /\ auth.currentSession # <<>>
    /\ auth.currentSession[1].CreatedAt = 0
    /\ auth.currentSession[1].LastActivity = now
    /\ now >= 30

\* C39: Authenticate(password) returns nil, having installed a new session,
\* only if the password opens the vault, also when the database is already
\* open from an earlier Connect or Authenticate.
C39_AuthenticateNeedsPassword ==
    (res.op = "Authenticate" /\ res.err = "nil") =>
        res.password = VaultPassword

\* C40: after a Connect that returned an error the database is not
\* connected, and after an Authenticate that returned an error the database
\* is not connected and the manager has no session.
C40_FailedConnectDisconnected ==
    /\ (res.op = "Connect" /\ res.err # "nil") => ~IsConnected(db)
    /\ (res.op = "Authenticate" /\ res.err # "nil") =>
          /\ ~IsConnected(db)
          /\ auth.currentSession = <<>>

(***************************************************************************)
(* Properties of the clipboard.                                            *)
(***************************************************************************)

\* the manager has copied t, t is on the clipboard and the timer that Copy
\* started is pending
CopiedAndPending(t) ==
    /\ res.op = "Copy" /\ res.err = "nil" /\ res.text = t
    /\ clip.clearDelay > 0
    /\ clip.lastCopy = t
    /\ clip.system = t
    /\ clip.clearTimer # <<>>
    /\ clip.clearTimer[1].state = "pending"

\* C24: after Copy has put a secret on the clipboard with a positive clear
\* delay, eventually the secret is no longer on the clipboard.
C24_ClipboardCleared ==
    \A t \in ClipTexts : CopiedAndPending(t) ~> (clip.system # t)

\* a clearIfUnchanged call takes a step
CallbackRuns == \E j \in 1..MaxCopies : CallbackStep(j)

\* C37: the auto-clear erases the system clipboard only if, at the moment it
\* clears, the clipboard holds the text the manager copied last: what another
\* program has put there is never erased by a clearIfUnchanged call.
C37_ClearsOnlyOwnText ==
    [][(CallbackRuns /\ clip'.system # clip.system) =>
           clip.system = clip.lastCopy]_vars

\* the timer of the last Copy is pending and its delay has not elapsed
OwnTimerRunning ==
    /\ clip.clearTimer # <<>>
    /\ clip.clearTimer[1].state = "pending"
    /\ now < clip.clearTimer[1].at

\* while the timer of the last successful Copy runs, the call started by an
\* earlier timer neither changes the clipboard nor touches that timer
EarlierTimerHarmless ==
    (CallbackRuns /\ OwnTimerRunning /\ clip.system = clip.lastCopy) =>
        /\ clip'.system = clip.system
        /\ clip'.clearTimer = clip.clearTimer

\* a Copy that fails while the text of an earlier Copy is on the clipboard
\* with its timer pending leaves a pending timer
FailedCopyKeepsTimer ==
    ((\E t \in ClipTexts : DoCopy(t)) /\ res'.err # "nil"
        /\ clip.lastCopy # NoText /\ clip.system = clip.lastCopy
        /\ clip.clearTimer # <<>> /\ clip.clearTimer[1].state = "pending") =>
        /\ clip'.system = clip.system
        /\ clip'.clearTimer # <<>>
        /\ clip'.clearTimer[1].state = "pending"

\* C38: a Copy supersedes the pending auto-clear of an earlier Copy: the text
\* of a successful Copy stays on the clipboard until its own delay has
\* elapsed and its own timer stays pending, whatever the call started by an
\* earlier timer does; and after a Copy that fails, the text of an earlier
\* Copy that is still on the clipboard keeps a pending auto-clear.
C38_CopySupersedes ==
    [][EarlierTimerHarmless /\ FailedCopyKeepsTimer]_vars

(***************************************************************************)
(* Properties of the keyring.                                              *)
(***************************************************************************)

\* C25: GetPassword on an enabled manager returns the password most recently
\* saved for its service name by a successful SavePassword or UpdatePassword
\* of any manager, whatever the manager has cached.
C25_GetReturnsLastSaved ==
    (res.op = "GetPassword" /\ res.enabled /\ saved[res.service] # <<>>) =>
        /\ res.err = "nil"
        /\ res.value = saved[res.service][1]

\* C25 witness: the second manager, which saved nothing, reads the password
\* the first manager saved last, after the first manager's cache was cleared
C25_Witness ==
    /\ res.op = "GetPassword"
    /\ res.mgr = 2
    /\ res.err = "nil"
    /\ res.value = <<Rune_k>>
    /\ kr.mgr[1].masterKey = NilKey
    /\ kr.mgr[1].serviceName = res.service

KeyringWrites == {"SavePassword", "UpdatePassword", "DeletePassword"}

\* C26: on a disabled manager SavePassword, UpdatePassword and
\* DeletePassword return nil and leave the keyring as it is, GetPassword
\* returns ("", ErrKeyringDisabled) and HasPassword returns false; Enable and
\* Disable do not touch the keyring.
C26_DisabledIsInert ==
    [][ /\ (res'.op \in KeyringWrites /\ ~kr.mgr[res'.mgr].enabled) =>
              res'.err = "nil" /\ kr'.store = kr.store
        /\ (res'.op = "GetPassword" /\ ~kr.mgr[res'.mgr].enabled) =>
              res'.value = <<>> /\ res'.err = "ErrKeyringDisabled"
        /\ (res'.op = "HasPassword" /\ ~kr.mgr[res'.mgr].enabled) =>
              res'.value = <<FALSE>>
        /\ res'.op \in {"Enable", "Disable"} => kr'.store = kr.store
      ]_vars

\* C26 witness: DeletePassword on the disabled manager, its entry still there
C26_Witness ==
    /\ res.op = "DeletePassword"
    /\ ~res.enabled
    /\ ~kr.mgr[res.mgr].enabled
    /\ kr.store[res.service] # <<>>

\* C27: when the keyring holds an entry for the manager's service name, a
\* successful SavePassword or UpdatePassword of an enabled manager leaves the
\* master key of the entry as it is.
C27_MasterKeyPreserved ==
    [][ (/\ res'.op \in {"SavePassword", "UpdatePassword"}
         /\ res'.err = "nil"
         /\ kr.mgr[res'.mgr].enabled
         /\ kr.store[res'.service] # <<>>) =>
            kr'.store[res'.service][1].MasterKey = kr.store[res'.service][1].MasterKey
      ]_vars

(***************************************************************************)
(* Properties of the VaultDatabase.                                        *)
(***************************************************************************)
SecretOps ==
    {"CreateSecret", "GetSecret", "UpdateSecret", "DeleteSecret", "ListSecrets",
     "SearchSecrets"}

\* C28: on a VaultDatabase that is not connected every secret operation
\* returns ErrDatabaseNotConnected and changes nothing; after Close the
\* database is not connected, and Close on a closed database returns nil
\* and changes nothing.
C28_NotConnected ==
    [][ /\ (res'.op \in SecretOps /\ ~IsConnected(db)) =>
              res'.err = "ErrDatabaseNotConnected" /\ db' = db
        /\ res'.op = "Close" => ~IsConnected(db')
        /\ (res'.op = "Close" /\ ~IsConnected(db)) => res'.err = "nil" /\ db' = db
      ]_vars

\* C28 witness: GetSecret of a stored key after Close
C28_Witness ==
    /\ res.op = "GetSecret"
    /\ ~res.connected
    /\ res.err = "ErrDatabaseNotConnected"
    /\ \E r \in db.secrets : r.key = res.key

\* the stored keys that are key up to letter case
StoredAs(key) == {r \in db.secrets : ToLower(r.key) = ToLower(key)}

\* C29: on a connected database CreateSecret with a key that exists up to
\* letter case returns ErrDuplicateKey and changes nothing; GetSecret,
\* UpdateSecret and DeleteSecret with a key that does not exist return
\* ErrKeyNotFound and change nothing.
C29_DuplicateAndMissingKeys ==
    [][ /\ (res'.op = "CreateSecret" /\ IsConnected(db) /\ StoredAs(res'.key) # {}) =>
              res'.err = "ErrDuplicateKey" /\ db' = db
        /\ (res'.op \in {"GetSecret", "UpdateSecret", "DeleteSecret"}
              /\ IsConnected(db) /\ StoredAs(res'.key) = {}) =>
              res'.err = "ErrKeyNotFound" /\ db' = db
      ]_vars

\* C29 witness: CreateSecret refused for a key stored in the other case
C29_Witness ==
    /\ res.op = "CreateSecret"
    /\ res.err = "ErrDuplicateKey"
    /\ StoredAs(res.key) # {}
    /\ \A r \in db.secrets : r.key # res.key

\* the access counts of the secrets stored under another key than key
OtherCounts(d, key) ==
    {<<r.key, r.access_count>> : r \in {x \in d.secrets : ToLower(x.key) # ToLower(key)}}

AllCounts(d) == {<<r.key, r.access_count>> : r \in d.secrets}

\* C30: CreateSecret stores the secret with access count 0; a successful
\* GetSecret adds exactly 1 to the count of its secret and returns the
\* Secret with the new count; UpdateSecret, ListSecrets and SearchSecrets
\* change no count and no operation changes the count of another key.
C30_AccessCount ==
    [][ /\ (res'.op = "CreateSecret" /\ res'.err = "nil") =>
              \E r \in db'.secrets :
                  r.key = res'.key /\ r.access_count = 0 /\ r \notin db.secrets
        /\ (res'.op = "GetSecret" /\ res'.err = "nil") =>
              \E r \in db.secrets :
                  /\ ToLower(r.key) = ToLower(res'.key)
                  /\ res'.value[1].access_count = r.access_count + 1
                  /\ [r EXCEPT !.access_count = @ + 1] \in db'.secrets
        /\ res'.op \in {"UpdateSecret", "ListSecrets", "SearchSecrets"} =>
              AllCounts(db') = AllCounts(db)
        /\ res'.op \in SecretOps =>
              OtherCounts(db', res'.key) = OtherCounts(db, res'.key)
      ]_vars

\* C30 witness: the second GetSecret of a secret with a non-empty value
\* returns access count 2, the count of the stored row
C30_Witness ==
    /\ res.op = "GetSecret"
    /\ res.err = "nil"
    /\ res.value[1].access_count = 2
    /\ res.value[1].value # <<>>
    /\ \E r \in db.secrets : r.key = res.value[1].key /\ r.access_count = 2

====
